---- MODULE Spec2Model ----
(***************************************************************************)
(* A model of the promotional-banner scraper.                              *)
(*                                                                         *)
(*   scrape_novadreams.py   is_banner_candidate, detect_image_type,        *)
(*                          get_image_dimensions, download_image,          *)
(*                          ImageHTMLParser, fetch_page, scrape_banners,   *)
(*                          main                                           *)
(*   banner_extractor.py    SimpleBannerExtractor: __init__,               *)
(*                          extract_banners and what it calls,             *)
(*                          _is_promotional_banner, close                  *)
(*   batch_banner_extractor.py   BatchBannerExtractor.extract_from_urls    *)
(*                                                                         *)
(* Python str values are TLA+ strings (sequences of characters): Len,      *)
(* SubSeq and \o act on them as len, slicing and + do on a str.            *)
(* Python bytes values are sequences of numbers 0..255.                    *)
(***************************************************************************)
EXTENDS Integers, Sequences, FiniteSets, TLC

VARIABLES
    pc,             \* position of the operation being run
    \* -- the classifiers, called on one image dict
    img,            \* the image dict passed in
    include_all,    \* the include_all flag passed in
    verdict,        \* value returned by is_banner_candidate
    promo_verdict,  \* value returned by _is_promotional_banner
    \* -- scrape_banners
    all_images,     \* the all_images argument
    all_found,      \* image dicts in the order the extractors appended them
    pos,            \* position of the deduplication loop in all_found
    seen_urls,      \* URLs the deduplication loop has met
    unique,         \* first sighting of each URL
    candidates,     \* the images that passed is_banner_candidate
    i,              \* enumerate(candidates, 1): the next candidate
    downloaded,     \* metadata dicts of the downloads that returned one
    manifest,       \* content of manifest.json, None while not written
    result,         \* value returned by scrape_banners, None before
    attempts,       \* history: each download_image call, with its result
    error,          \* the exception that left the operation, None if none
    \* -- download_image
    md5,            \* URL -> first 8 hex digits of its MD5
    dl_url,         \* the url argument of the last call
    dl_index,       \* the index argument of the last call
    resp,           \* what session.get answered to the last call
    meta,           \* value returned by the last call
    files,          \* the destination directory
    \* -- detect_image_type and get_image_dimensions, called on one file
    file_bytes,     \* the bytes of the file
    expected,       \* the (w, h) the bytes were built to encode, None if none
    scan,           \* i of the JPEG marker scan
    fmt,            \* value returned by detect_image_type
    dims,           \* value returned by get_image_dimensions
    \* -- ImageHTMLParser fed one document
    page,           \* the document, as the tag events the parser reports
    ev,             \* the next event
    current_context,\* parser._current_context
    parser_images,  \* parser.images
    open_elements,  \* the elements that are open, outermost first
    ancestors,      \* for each entry of parser.images, the description of
                    \* the elements open when it was met
    soup_images,    \* what the BeautifulSoup branch appends to all_found
    \* -- BatchBannerExtractor and the SimpleBannerExtractor it drives
    environ,        \* FIRECRAWL_AVAILABLE, FIRECRAWL_API_KEY and whether
                    \* webdriver.Chrome() starts
    stats,          \* batch.stats
    before,         \* history: batch.stats when the current call began
    calls,          \* history: number of extract_from_urls calls begun
    urls,           \* the urls argument of the current call
    site,           \* enumerate(urls, 1): the next site
    results,        \* the results list of the current call
    extractor,      \* the SimpleBannerExtractor of the current call
    answer,         \* what the site of the last extract_banners call did
    downloaded_files, \* what the last extract_banners call returned or raised
    summary,        \* content of batch_summary.txt, None while not written
    batch_out       \* value returned by the last extract_from_urls call

classVars == <<img, include_all, verdict, promo_verdict>>

runVars == <<all_images, all_found, pos, seen_urls, unique, candidates, i,
             downloaded, manifest, result, attempts>>

callVars == <<md5, dl_url, dl_index, resp, meta, files>>

sniffVars == <<file_bytes, expected, scan, fmt, dims>>

parseVars == <<page, ev, current_context, parser_images, open_elements, ancestors,
               soup_images>>

batchVars == <<environ, stats, before, calls, urls, site, results, extractor,
               answer, downloaded_files, summary, batch_out>>

vars == <<pc, error, classVars, runVars, callVars, sniffVars, parseVars,
          batchVars>>

(***************************************************************************)
(* Python values                                                           *)
(***************************************************************************)

\* None, as a value distinct from every dict and every bool.
None == [py |-> "None"]

\* An exception leaving the function fn.
Raised(fn, exc) == [fn |-> fn, exc |-> exc]

\* The value a call returned, kept apart from "not called yet" (None).
Ret(v) == [ret |-> v]

Range(s) == {s[k] : k \in 1..Len(s)}

\* "sub in text" for two str values.
Contains(text, sub) ==
    \E k \in 1..(Len(text) - Len(sub) + 1) : SubSeq(text, k, k + Len(sub) - 1) = sub

\* any(p in text for p in patterns)
AnyIn(patterns, text) == \E k \in 1..Len(patterns) : Contains(text, patterns[k])

LowerTable ==
    "A" :> "a" @@ "B" :> "b" @@ "C" :> "c" @@ "D" :> "d" @@ "E" :> "e" @@ "F" :> "f" @@
    "G" :> "g" @@ "H" :> "h" @@ "I" :> "i" @@ "J" :> "j" @@ "K" :> "k" @@ "L" :> "l" @@
    "M" :> "m" @@ "N" :> "n" @@ "O" :> "o" @@ "P" :> "p" @@ "Q" :> "q" @@ "R" :> "r" @@
    "S" :> "s" @@ "T" :> "t" @@ "U" :> "u" @@ "V" :> "v" @@ "W" :> "w" @@ "X" :> "x" @@
    "Y" :> "y" @@ "Z" :> "z"

LowerChar(c) == IF c \in DOMAIN LowerTable THEN LowerTable[c] ELSE c

RECURSIVE Lower(_)
\* str.lower() on ASCII text
Lower(text) ==
    IF Len(text) = 0 THEN ""
    ELSE LowerChar(SubSeq(text, 1, 1)) \o Lower(SubSeq(text, 2, Len(text)))

(***************************************************************************)
(* Banner filtering: scrape_novadreams.is_banner_candidate                 *)
(***************************************************************************)

PROMO_KEYWORDS ==
    << "banner", "promo", "promotion", "offer", "welcome", "deposit",
       "free", "spin", "jackpot", "casino", "bet", "win", "reward",
       "special", "exclusive", "limited", "cashback", "match", "reload",
       "bonus", "hero", "slider", "carousel", "campaign", "featured",
       "cta", "signup", "sign-up", "register", "deal", "tournament" >>

SKIP_PATTERNS ==
    << "favicon", "icon-", "logo-small", "pixel", "spacer",
       "1x1", "tracking", "analytics", "badge", ".svg",
       "emoji", "avatar", "flag-", "payment-", "visa", "mastercard" >>

PROMO_URL_INDICATORS ==
    << "banner", "promo", "bonus", "offer", "campaign", "hero", "slide" >>

MIN_W == 200
MIN_H == 80

\* url_lower = img["url"].lower()
url_lower(im) == Lower(im.url)

\* any(skip in url_lower for skip in SKIP_PATTERNS)
skipped(im) == AnyIn(SKIP_PATTERNS, url_lower(im))

\* text = f"{alt} {title} {class} {url} {context}".lower()
text_of(im) ==
    Lower(im.alt \o " " \o im.title \o " " \o im.class \o " " \o im.url \o " " \o im.context)

has_keyword(im) == AnyIn(PROMO_KEYWORDS, text_of(im))

has_promo_url(im) == AnyIn(PROMO_URL_INDICATORS, url_lower(im))

\* 0.8 <= w / h <= 8.0 for integers w, h > 0.  The float quotient w / h is
\* compared with the literals 0.8 and 8.0; for pixel sizes far below 2^50 the
\* comparison agrees with the exact one on the rationals, stated here with
\* integers.
ratio_ok(w, h) == 10 * w >= 8 * h /\ w <= 8 * h

\* Mutant of size_ok: the aspect-ratio test is left out.
size_ok_without_ratio(im) ==
    IF im.width > 0 /\ im.height > 0
    THEN im.width >= MIN_W /\ im.height >= MIN_H
    ELSE TRUE

\* Mutant of size_ok: a size is taken as known as soon as one dimension is.
size_ok_one_dimension(im) ==
    IF im.width > 0 \/ im.height > 0
    THEN im.width >= MIN_W /\ im.height >= MIN_H /\ ratio_ok(im.width, im.height)
    ELSE TRUE

\* The size heuristic: applied only when both dimensions are > 0.
size_ok(im) ==
    IF im.width > 0 /\ im.height > 0
    THEN im.width >= MIN_W /\ im.height >= MIN_H /\ ratio_ok(im.width, im.height)
    ELSE TRUE

\* Mutant of is_banner_candidate: the include_all test comes first.
is_banner_candidate_all_first(im, all) ==
    IF all THEN TRUE
    ELSE IF skipped(im) THEN FALSE
    ELSE (has_keyword(im) \/ has_promo_url(im)) /\ size_ok(im)

is_banner_candidate(im, all) ==
    IF skipped(im) THEN FALSE
    ELSE IF all THEN TRUE
    ELSE (has_keyword(im) \/ has_promo_url(im)) /\ size_ok(im)

(***************************************************************************)
(* banner_extractor.SimpleBannerExtractor._is_promotional_banner           *)
(***************************************************************************)

promo_keywords ==
    << "bonus", "promo", "promotion", "offer", "welcome", "deposit",
       "free", "spin", "jackpot", "casino", "bet", "win", "reward",
       "special", "exclusive", "limited", "cashback", "match", "reload" >>

url_indicators == << "banner", "promo", "bonus", "offer", "campaign" >>

min_width == 200
min_height == 80

\* text = f"{alt} {title} {class} {url}".lower()
banner_text(b) == Lower(b.alt \o " " \o b.title \o " " \o b.class \o " " \o b.url)

has_promo_keywords(b) == AnyIn(promo_keywords, banner_text(b))

\* 1.2 <= width / height <= 6.0
is_banner_shape(w, h) == 10 * w >= 12 * h /\ w <= 6 * h

banner_size_ok(b) ==
    IF b.width > 0 /\ b.height > 0
    THEN b.width >= min_width /\ b.height >= min_height
         /\ is_banner_shape(b.width, b.height)
    ELSE TRUE

is_promotional_banner(b) ==
    (has_promo_keywords(b) \/ AnyIn(url_indicators, Lower(b.url))) /\ banner_size_ok(b)

(***************************************************************************)
(* Image bytes.  A bytes value is [head, size]: its first Len(head) bytes  *)
(* are head and the remaining size - Len(head) bytes are all 0, so that a  *)
(* body of several MiB is one small value.  Offsets are 0-based as in      *)
(* Python.                                                                 *)
(***************************************************************************)

Min(a, b) == IF a <= b THEN a ELSE b

\* len(data)
ByteLen(data) == data.size

\* data[o], for 0 <= o < len(data)
ByteAt(data, o) == IF o < Len(data.head) THEN data.head[o + 1] ELSE 0

\* data[a:b] as a sequence of byte values (empty when a >= min(b, len))
Slice(data, a, b) ==
    [ n \in 1..(Min(b, ByteLen(data)) - a) |-> ByteAt(data, a + n - 1) ]

\* struct.unpack(">H", s)[0] for a 2-byte s
BigEndian16(s) == s[1] * 256 + s[2]

\* one field of struct.unpack(">II", s): the 4 bytes of s from position p
BigEndian32(s, p) == ((s[p] * 256 + s[p + 1]) * 256 + s[p + 2]) * 256 + s[p + 3]

\* struct.unpack("<H", s)[0] for a 2-byte s
LittleEndian16(s) == s[1] + s[2] * 256

SIG_JPG    == << 255, 216, 255 >>              \* b"\xff\xd8\xff"
SIG_PNG    == << 137, 80, 78, 71 >>            \* b"\x89PNG"
SIG_GIF87A == << 71, 73, 70, 56, 55, 97 >>     \* b"GIF87a"
SIG_GIF89A == << 71, 73, 70, 56, 57, 97 >>     \* b"GIF89a"
SIG_RIFF   == << 82, 73, 70, 70 >>             \* b"RIFF"
TAG_WEBP   == << 87, 69, 66, 80 >>             \* b"WEBP"
TAG_GIF    == << 71, 73, 70 >>                 \* b"GIF"
SOI        == << 255, 216 >>                   \* b"\xff\xd8"

\* IMAGE_SIGNATURES, in the dict's insertion order
IMAGE_SIGNATURES ==
    << [sig |-> SIG_JPG,    fmt |-> "jpg"],
       [sig |-> SIG_PNG,    fmt |-> "png"],
       [sig |-> SIG_GIF87A, fmt |-> "gif"],
       [sig |-> SIG_GIF89A, fmt |-> "gif"],
       [sig |-> SIG_RIFF,   fmt |-> "webp"] >>

\* An Optional[str] that is None.  detect_image_type returns a format name
\* or None and its caller only tests "not img_type", so None is kept as the
\* one str that is falsy as well.
NoType == ""

RECURSIVE detect_from(_, _)
\* The for loop of detect_image_type from the n-th signature on.
detect_from(data, n) ==
    IF n > Len(IMAGE_SIGNATURES) THEN NoType
    ELSE LET s == IMAGE_SIGNATURES[n] IN
         IF Slice(data, 0, Len(s.sig)) = s.sig
         THEN IF s.fmt = "webp" /\ Slice(data, 8, 12) # TAG_WEBP
              THEN detect_from(data, n + 1)
              ELSE s.fmt
         ELSE detect_from(data, n + 1)

detect_image_type(data) == detect_from(data, 1)

\* (w, h)
Dim(w, h) == [w |-> w, h |-> h]

RECURSIVE jpeg_scan(_, _)
\* The while loop of get_image_dimensions from offset o on: the dimensions
\* found at a C0 or C2 marker, or Dim(0, 0) when the loop ends without one
\* (no later branch applies to data that starts with FF D8).  Past the head
\* every byte is 0, so the loop only steps to the end of the data.
jpeg_scan(data, o) ==
    IF ~(o < ByteLen(data) - 9) THEN Dim(0, 0)
    ELSE IF o >= Len(data.head) THEN Dim(0, 0)
    ELSE IF ByteAt(data, o) = 255
         THEN LET marker == ByteAt(data, o + 1) IN
              IF marker \in {192, 194}
              THEN Dim(BigEndian16(Slice(data, o + 7, o + 9)),
                       BigEndian16(Slice(data, o + 5, o + 7)))
              ELSE jpeg_scan(data, o + 2 + BigEndian16(Slice(data, o + 2, o + 4)))
         ELSE jpeg_scan(data, o + 1)

\* get_image_dimensions on a file holding data.  struct.unpack raises on a
\* slice shorter than its format; the except clause turns that into (0, 0).
get_image_dimensions(data) ==
    LET header == Slice(data, 0, 32) IN
    IF SubSeq(header, 1, Min(4, Len(header))) = SIG_PNG
    THEN IF Len(header) >= 24
         THEN Dim(BigEndian32(header, 17), BigEndian32(header, 21))
         ELSE Dim(0, 0)
    ELSE IF Slice(data, 0, 2) = SOI
    THEN jpeg_scan(data, 2)
    ELSE IF SubSeq(header, 1, Min(3, Len(header))) = TAG_GIF
    THEN IF Len(header) >= 10
         THEN Dim(LittleEndian16(SubSeq(header, 7, 8)), LittleEndian16(SubSeq(header, 9, 10)))
         ELSE Dim(0, 0)
    ELSE Dim(0, 0)

(***************************************************************************)
(* download_image                                                          *)
(***************************************************************************)

MIN_BYTES == 500
MAX_BYTES == 10485760          \* 10 * 1024 * 1024

DIGITS == << "0", "1", "2", "3", "4", "5", "6", "7", "8", "9" >>

RECURSIVE Decimal(_)
\* str(n) for n >= 0
Decimal(n) == IF n < 10 THEN DIGITS[n + 1] ELSE Decimal(n \div 10) \o DIGITS[(n % 10) + 1]

RECURSIVE ZeroPad(_, _)
\* text.rjust(width, "0")
ZeroPad(text, width) == IF Len(text) >= width THEN text ELSE ZeroPad("0" \o text, width)

\* Mutant of Format03d: the field holds the last three digits only.
Format03d_three_digits(index) == ZeroPad(Decimal(index % 1000), 3)

\* f"{index:03d}" for index >= 0
Format03d(index) == ZeroPad(Decimal(index), 3)

\* resp.raise_for_status() raises HTTPError for a 4xx or a 5xx status, and
\* for no other status.
raise_for_status(status) == 400 <= status /\ status < 600

\* The content-type fallback list, in the order it is tried.
CONTENT_TYPE_EXT ==
    << [ct |-> "jpeg", ext |-> "jpg"], [ct |-> "jpg", ext |-> "jpg"],
       [ct |-> "png", ext |-> "png"], [ct |-> "gif", ext |-> "gif"],
       [ct |-> "webp", ext |-> "webp"] >>

RECURSIVE ext_from(_, _)
\* The fallback loop from the n-th pair on; NoType when no pair matches.
ext_from(content_type, n) ==
    IF n > Len(CONTENT_TYPE_EXT) THEN NoType
    ELSE IF Contains(content_type, CONTENT_TYPE_EXT[n].ct) THEN CONTENT_TYPE_EXT[n].ext
    ELSE ext_from(content_type, n + 1)

\* Mutant of image_type: the declared content type is consulted first and
\* the signature only when it names no format.
image_type_declared_first(data, content_type) ==
    LET declared == ext_from(content_type, 1)
        sniffed == IF declared = NoType THEN detect_image_type(data) ELSE declared
    IN  IF sniffed = NoType THEN "jpg" ELSE sniffed

\* img_type as it stands when the filename is built.
image_type(data, content_type) ==
    LET sniffed == detect_image_type(data)
        declared == IF sniffed = NoType THEN ext_from(content_type, 1) ELSE sniffed
    IN  IF declared = NoType THEN "jpg" ELSE declared

\* "image" not in content_type and "octet-stream" not in content_type
content_type_rejected(content_type) ==
    ~Contains(content_type, "image") /\ ~Contains(content_type, "octet-stream")

\* len(data) < 500, or len(data) > 10 * 1024 * 1024
size_rejected(data) == ByteLen(data) < MIN_BYTES \/ ByteLen(data) > MAX_BYTES

\* filename = f"banner_{index:03d}_{url_hash}.{img_type}"
file_name(url_hash, index, img_type) ==
    "banner_" \o Format03d(index) \o "_" \o url_hash \o "." \o img_type

DEST_DIR == "novadreams_banners/x_io"

\* The destination directory is a function from file names to what each
\* file holds: the bytes written and whether the write ran to its end.
\* filepath.write_bytes(data) creates or truncates the file.
write_file(fs, name, data, complete) ==
    (name :> [data |-> data, complete |-> complete]) @@ fs

\* The try block of download_image(session, url, dest_dir, index) on a
\* session that answers session.get(url) with r, in a destination directory
\* holding fs; hashes[url] is hashlib.md5(url.encode()).hexdigest()[:8].
\* The value holds what the block returns (a metadata dict or None), the
\* directory afterwards and the exception the block raised ("" for none).
download_try(fs, hashes, url, index, r) ==
    IF r.raised = "get"
    THEN [meta |-> None, files |-> fs, exc |-> "ConnectionError"]
    ELSE IF raise_for_status(r.status)
    THEN [meta |-> None, files |-> fs, exc |-> "HTTPError"]
    ELSE IF content_type_rejected(r.content_type)
    THEN [meta |-> None, files |-> fs, exc |-> ""]
    ELSE IF r.raised = "content"
    THEN [meta |-> None, files |-> fs, exc |-> "ChunkedEncodingError"]
    ELSE IF size_rejected(r.data)
    THEN [meta |-> None, files |-> fs, exc |-> ""]
    ELSE LET img_type == image_type(r.data, r.content_type)
             filename == file_name(hashes[url], index, img_type)
             dim      == get_image_dimensions(r.data)
         IN  CASE r.write = "ok" ->
                   [ meta  |-> [ file       |-> DEST_DIR \o "/" \o filename,
                                 filename   |-> filename,
                                 url        |-> url,
                                 width      |-> dim.w,
                                 height     |-> dim.h,
                                 size_bytes |-> ByteLen(r.data),
                                 format     |-> img_type ],
                     files |-> write_file(fs, filename, r.data, TRUE),
                     exc   |-> "" ]
               [] r.write = "partial" ->
                   [ meta  |-> None,
                     files |-> write_file(fs, filename, r.data, FALSE),
                     exc   |-> "OSError" ]
               [] r.write = "interrupted" ->
                   [ meta  |-> None,
                     files |-> write_file(fs, filename, r.data, FALSE),
                     exc   |-> "KeyboardInterrupt" ]
               [] OTHER ->
                   [ meta |-> None, files |-> fs, exc |-> "OSError" ]

\* Mutant of is_caught: the handler is "except requests.RequestException".
is_caught_requests_only(exc) ==
    exc \in {"ConnectionError", "HTTPError", "ChunkedEncodingError"}

\* "except Exception": each exception of the try block is an Exception,
\* but for KeyboardInterrupt, which is a BaseException only.
is_caught(exc) ==
    exc \in {"ConnectionError", "HTTPError", "ChunkedEncodingError", "OSError"}

\* download_image: the try block, and None for every exception caught.
download_image(fs, hashes, url, index, r) ==
    LET out == download_try(fs, hashes, url, index, r) IN
    IF is_caught(out.exc) THEN [meta |-> None, files |-> out.files, exc |-> ""] ELSE out

(***************************************************************************)
(* What a session can answer to session.get(url, timeout=15, stream=True)  *)
(***************************************************************************)

\* raised: "get" when session.get raises (connection error, timeout),
\*         "content" when reading resp.content raises, "none" otherwise;
\* write:  "ok", or the write raising before the file exists ("error") or
\*         after part of it was written ("partial"), or the user's
\*         interrupt (SIGINT) arriving while the file is being written
\*         ("interrupted").
Response(raised, status, content_type, data, write) ==
    [ raised |-> raised, status |-> status, content_type |-> content_type,
      data |-> data, write |-> write ]

PNG_HEAD  == << 137, 80, 78, 71, 13, 10, 26, 10, 0, 0, 0, 13, 73, 72, 68, 82,
                0, 0, 2, 128, 0, 0, 0, 100 >>                \* IHDR 640 x 100
JPG_HEAD  == << 255, 216, 255, 224, 0, 4, 1, 2,
                255, 192, 0, 17, 8, 0, 150, 1, 44, 3 >>      \* SOF0 300 x 150
GIF_HEAD  == << 71, 73, 70, 56, 57, 97, 44, 1, 150, 0 >>     \* GIF89a 300 x 150
WEBP_HEAD == << 82, 73, 70, 70, 0, 0, 0, 0, 87, 69, 66, 80 >>
WAVE_HEAD == << 82, 73, 70, 70, 0, 0, 0, 0, 87, 65, 86, 69 >> \* RIFF, not WEBP
HTML_HEAD == << 60, 104, 116, 109, 108, 62 >>                \* b"<html>"

Heads == { PNG_HEAD, JPG_HEAD, GIF_HEAD, WEBP_HEAD, WAVE_HEAD, HTML_HEAD }

BodySizes == { 400, MIN_BYTES - 1, MIN_BYTES, 600, MAX_BYTES, MAX_BYTES + 1 }

Bodies == [ head : Heads, size : BodySizes ]

Statuses == { 200, 206, 300, 404, 503 }

ContentTypes ==
    { "image/png", "image/jpeg", "image/gif", "image/webp", "image/x-icon",
      "image/png; name=a.jpeg", "application/octet-stream", "text/html", "" }

Responses ==
    [ raised : {"none", "get", "content"}, status : Statuses,
      content_type : ContentTypes, data : Bodies, write : {"ok", "error", "partial"} ]

\* hashlib.md5(url.encode()).hexdigest()[:8] of the URLs used below: the
\* values md5 gives, and a table in which all of them collide.
MD5_PREFIX ==
    ( "https://x.io/promo/a.jpg" :> "3e14d476" @@
      "https://x.io/b.png"       :> "1a08a764" @@
      "https://x.io/favicon.png" :> "4b52abd9" @@
      "https://x.io/slide2.gif"  :> "79b3537f" )

Urls == DOMAIN MD5_PREFIX

HashTables == { MD5_PREFIX, [u \in Urls |-> "3e14d476"] }

(***************************************************************************)
(* The classifiers applied to one image dict                               *)
(***************************************************************************)

ClassifyUrls ==
    { "https://x.io/a.jpg",            \* no keyword, no pattern
      "https://x.io/Promo/b.png",      \* keyword and URL pattern, mixed case
      "https://x.io/slide1.gif",       \* URL pattern "slide", no keyword
      "https://x.io/FavIcon.png",      \* denylisted, mixed case
      "https://x.io/hero/icon-1.png",  \* denylisted and promotional
      "https://x.io/Banner.SVG" }      \* denylisted by extension, promotional

ClassifyAlts == { "", "Big WIN" }
ClassifyContexts == { "", "div.Slider #top" }
ClassifyWidths == { -5, 0, 199, 200, 640, 728 }
ClassifyHeights == { -5, 0, 79, 80, 90, 100, 200, 250, 300 }

ClassifyImages ==
    [ url : ClassifyUrls, alt : ClassifyAlts, title : {""}, class : {""},
      width : ClassifyWidths, height : ClassifyHeights,
      context : ClassifyContexts, tag : {"img"} ]

NoImage == [ url |-> "", alt |-> "", title |-> "", class |-> "",
             width |-> 0, height |-> 0, context |-> "", tag |-> "" ]

\* No classifier call is under way.
IdleClassify ==
    /\ img = NoImage
    /\ include_all = FALSE
    /\ verdict = None
    /\ promo_verdict = None

\* No scrape_banners run is under way.
IdleRun ==
    /\ all_images = FALSE
    /\ all_found = <<>>
    /\ pos = 1
    /\ seen_urls = {}
    /\ unique = <<>>
    /\ candidates = <<>>
    /\ i = 1
    /\ downloaded = <<>>
    /\ manifest = None
    /\ result = None
    /\ attempts = <<>>

\* No download_image call was made and the destination directory is empty.
IdleCall ==
    /\ md5 = MD5_PREFIX
    /\ dl_url = ""
    /\ dl_index = 0
    /\ resp = None
    /\ meta = None
    /\ files = <<>>

\* No file is being examined.
IdleSniff ==
    /\ file_bytes = [head |-> <<>>, size |-> 0]
    /\ expected = None
    /\ scan = 0
    /\ fmt = None
    /\ dims = None

\* No document is being parsed.
IdleParse ==
    /\ page = <<>>
    /\ ev = 1
    /\ current_context = <<>>
    /\ parser_images = <<>>
    /\ open_elements = <<>>
    /\ ancestors = <<>>
    /\ soup_images = None

\* No batch was started: the stats are those BatchBannerExtractor.__init__
\* sets and no SimpleBannerExtractor exists.
IdleBatch ==
    /\ environ = None
    /\ stats = [total_sites |-> 0, successful_sites |-> 0, failed_sites |-> 0,
                total_banners |-> 0]
    /\ before = stats
    /\ calls = 0
    /\ urls = <<>>
    /\ site = 1
    /\ results = <<>>
    /\ extractor = None
    /\ answer = None
    /\ downloaded_files = None
    /\ summary = None
    /\ batch_out = None

InitClassify ==
    /\ pc = "classify"
    /\ IdleSniff
    /\ IdleParse
    /\ IdleBatch
    /\ error = None
    /\ img \in ClassifyImages
    /\ include_all \in BOOLEAN
    /\ verdict = None
    /\ promo_verdict = None
    /\ IdleRun
    /\ IdleCall

\* is_banner_candidate(img, include_all)
IsBannerCandidate ==
    /\ pc = "classify"
    /\ verdict = None
    /\ verdict' = Ret(is_banner_candidate(img, include_all))
    /\ UNCHANGED <<batchVars, sniffVars, parseVars, pc, error, img, include_all, promo_verdict, runVars, callVars>>

\* extractor._is_promotional_banner(img)
IsPromotionalBanner ==
    /\ pc = "classify"
    /\ promo_verdict = None
    /\ promo_verdict' = Ret(is_promotional_banner(img))
    /\ UNCHANGED <<batchVars, sniffVars, parseVars, pc, error, img, include_all, verdict, runVars, callVars>>

NextClassify == IsBannerCandidate \/ IsPromotionalBanner

SpecClassify == InitClassify /\ [][NextClassify]_vars

(***************************************************************************)
(* Claims about the classifiers                                            *)
(***************************************************************************)

\* The URL, lower-cased, contains a denylisted substring.
UrlHasDenylisted(u) == \E k \in DOMAIN SKIP_PATTERNS : Contains(Lower(u), SKIP_PATTERNS[k])

BothKnown(im) == im.width > 0 /\ im.height > 0

\* width / height lies outside [loNum / loDen, hi]
RatioOutside(im, loNum, loDen, hi) ==
    im.width * loDen < loNum * im.height \/ im.width > hi * im.height

\* C1: a candidate whose URL, compared case-insensitively, contains a
\* denylisted substring is rejected by is_banner_candidate, with include_all
\* true as with include_all false, whatever its keywords, URL patterns and
\* dimensions.
C1_DenylistRejects ==
    (verdict # None /\ UrlHasDenylisted(img.url)) => verdict = Ret(FALSE)

\* C1 witness: a denylisted URL that also carries a promotional word was
\* classified in include-all mode, and rejected.
C1_Witness ==
    /\ verdict = Ret(FALSE)
    /\ include_all
    /\ UrlHasDenylisted(img.url)
    /\ has_promo_url(img)

\* C2 as stated: with both dimensions known, a ratio outside the bounds in
\* force means rejection, whatever the mode flag is.
C2_SizeGateAnyMode ==
    /\ (verdict # None /\ BothKnown(img) /\ RatioOutside(img, 4, 5, 8))
         => verdict = Ret(FALSE)
    /\ (promo_verdict # None /\ BothKnown(img) /\ RatioOutside(img, 6, 5, 6))
         => promo_verdict = Ret(FALSE)

\* C2 amended: with both dimensions known, is_banner_candidate called with
\* include_all false rejects every candidate whose ratio is outside
\* [0.8, 8.0], and _is_promotional_banner rejects every candidate whose ratio
\* is outside [1.2, 6.0], whatever keywords or URL patterns match.
C2_SizeGateFiltered ==
    /\ (verdict # None /\ ~include_all /\ BothKnown(img) /\ RatioOutside(img, 4, 5, 8))
         => verdict = Ret(FALSE)
    /\ (promo_verdict # None /\ BothKnown(img) /\ RatioOutside(img, 6, 5, 6))
         => promo_verdict = Ret(FALSE)

\* C2 witness: a 728x90 image with a promotional URL, large enough and not
\* denylisted, was rejected in filtered mode: only its 8.09 ratio rules it out.
C2_Witness ==
    /\ verdict = Ret(FALSE)
    /\ ~include_all
    /\ ~UrlHasDenylisted(img.url)
    /\ has_promo_url(img)
    /\ img.width = 728 /\ img.height = 90

\* sizeOk as C3 words it: true when a dimension is 0, else the size test.
SizeOkZeroUnknown(im) ==
    IF im.width = 0 \/ im.height = 0 THEN TRUE
    ELSE im.width >= 200 /\ im.height >= 80 /\ ~RatioOutside(im, 4, 5, 8)

\* sizeOk with "unknown" read as "not positive".
SizeOkNonPositiveUnknown(im) ==
    IF im.width <= 0 \/ im.height <= 0 THEN TRUE
    ELSE im.width >= 200 /\ im.height >= 80 /\ ~RatioOutside(im, 4, 5, 8)

DownloadIndexes == { 1, 1000 }

\* A file an earlier run left in the destination directory.
STALE_FILES ==
    ( "banner_001_1a08a764.png" :> [data |-> [head |-> PNG_HEAD, size |-> 600],
                                    complete |-> TRUE] )

InitDownload ==
    /\ pc = "download_image"
    /\ IdleSniff
    /\ IdleParse
    /\ IdleBatch
    /\ error = None
    /\ IdleClassify
    /\ IdleRun
    /\ md5 = MD5_PREFIX
    /\ dl_url = "https://x.io/b.png"
    /\ dl_index \in DownloadIndexes
    /\ resp = None
    /\ meta = None
    /\ files \in { <<>>, STALE_FILES }

\* meta = download_image(session, dl_url, dest_dir, dl_index)
DownloadImage ==
    /\ pc = "download_image"
    /\ \E r \in Responses :
         LET out == download_image(files, md5, dl_url, dl_index, r) IN
         /\ resp' = r
         /\ meta' = out.meta
         /\ files' = out.files
         /\ pc' = IF out.exc = "" THEN "returned" ELSE "raised"
         /\ error' = IF out.exc = "" THEN None ELSE Raised("download_image", out.exc)
    /\ UNCHANGED <<batchVars, sniffVars, parseVars, classVars, runVars, md5, dl_url, dl_index>>

NextDownload == DownloadImage

SpecDownload == InitDownload /\ [][NextDownload]_vars

(***************************************************************************)
(* Claims about download_image                                             *)
(***************************************************************************)

\* The bytes of data from offset o on are exactly seq.
HasBytesAt(data, o, seq) ==
    \A n \in 1..Len(seq) : o + n - 1 < data.size /\ ByteAt(data, o + n - 1) = seq[n]

\* The format a signature at the start of the data stands for, "" for none.
SniffedFormat(data) ==
    CASE HasBytesAt(data, 0, <<255, 216, 255>>) -> "jpg"
      [] HasBytesAt(data, 0, <<137, 80, 78, 71>>) -> "png"
      [] HasBytesAt(data, 0, <<71, 73, 70, 56, 55, 97>>) -> "gif"
      [] HasBytesAt(data, 0, <<71, 73, 70, 56, 57, 97>>) -> "gif"
      [] HasBytesAt(data, 0, <<82, 73, 70, 70>>) /\ HasBytesAt(data, 8, <<87, 69, 66, 80>>) -> "webp"
      [] OTHER -> ""

\* The format a declared content type names, "" for none.
DeclaredFormat(content_type) ==
    CASE Contains(content_type, "jpeg") \/ Contains(content_type, "jpg") -> "jpg"
      [] Contains(content_type, "png") -> "png"
      [] Contains(content_type, "gif") -> "gif"
      [] Contains(content_type, "webp") -> "webp"
      [] OTHER -> ""

DeclaresImage(content_type) ==
    Contains(content_type, "image") \/ Contains(content_type, "octet-stream")

\* The call got a response (nothing raised while fetching it).
Answered(r) == r.raised = "none"

\* C9 as stated: download_image returns metadata (success) only for a 2xx
\* response whose content type names an image or octet-stream and whose
\* body has between 500 bytes and 10 MiB.
C9_SuccessOnlyIf2xx ==
    (pc = "returned" /\ meta # None)
        => /\ resp.status \in 200..299
           /\ DeclaresImage(resp.content_type)
           /\ resp.data.size >= 500
           /\ resp.data.size <= 10 * 1024 * 1024

\* What download_image does enforce: metadata is returned only for a
\* response that came without an exception, with a status that is not a 4xx
\* or 5xx, a content type naming an image or octet-stream and a body of 500
\* bytes to 10 MiB, and then the file it names holds the whole body.
DownloadGate ==
    (pc = "returned" /\ meta # None)
        => /\ Answered(resp)
           /\ ~(resp.status \in 400..599)
           /\ DeclaresImage(resp.content_type)
           /\ resp.data.size >= 500
           /\ resp.data.size <= 10 * 1024 * 1024
           /\ meta.filename \in DOMAIN files
           /\ files[meta.filename] = [data |-> resp.data, complete |-> TRUE]

\* A response turned down by the status, content-type or size check leaves
\* the destination directory as it was.
RejectedLeavesNoFile ==
    [][ (pc = "download_image" /\ pc' = "returned"
         /\ (  resp'.status \in 400..599
            \/ ~DeclaresImage(resp'.content_type)
            \/ resp'.data.size < 500
            \/ resp'.data.size > 10 * 1024 * 1024 ))
        => (meta' = None /\ files' = files) ]_vars

\* The response got past every check of download_image.
PassedChecks(r) ==
    /\ Answered(r)
    /\ ~(r.status \in 400..599)
    /\ DeclaresImage(r.content_type)
    /\ r.data.size >= 500
    /\ r.data.size <= 10 * 1024 * 1024

\* sniffed format, else declared format, else jpg
ExpectedFormat(r) ==
    IF SniffedFormat(r.data) # "" THEN SniffedFormat(r.data)
    ELSE IF DeclaredFormat(r.content_type) # "" THEN DeclaredFormat(r.content_type)
    ELSE "jpg"

\* text ends with suffix
EndsWith(text, suffix) ==
    Len(text) >= Len(suffix)
    /\ SubSeq(text, Len(text) - Len(suffix) + 1, Len(text)) = suffix

\* C10: for a response that passed the content-type and size checks, the
\* stored format is the sniffed signature format when one is recognized,
\* else the format inferred from the declared content type, else jpg, and
\* the download is not rejected for its format: when the write succeeds,
\* metadata is returned and the file carries that format as its extension.
C10_StoredFormat ==
    (pc = "returned" /\ PassedChecks(resp) /\ resp.write = "ok")
        => /\ meta # None
           /\ meta.format = ExpectedFormat(resp)
           /\ EndsWith(meta.filename, "." \o ExpectedFormat(resp))
           /\ meta.filename \in DOMAIN files

\* C10 witness: a body with no known signature, declared as octet-stream,
\* was stored as jpg.
C10_Witness ==
    /\ pc = "returned"
    /\ PassedChecks(resp)
    /\ SniffedFormat(resp.data) = ""
    /\ DeclaredFormat(resp.content_type) = ""
    /\ meta # None
    /\ meta.format = "jpg"

(***************************************************************************)
(* scrape_banners                                                          *)
(***************************************************************************)

\* The url argument of the run.
PAGE_URL == "https://x.io/"

MaxRefs == 3

\* Image dicts as the extractors build them.  The same URL is met through
\* several channels: an <img> carries alt, title, width and height, a
\* stylesheet rule or a <source> carries none of them.
REF_A_CSS ==
    [ url |-> "https://x.io/promo/a.jpg", alt |-> "", title |-> "", class |-> ".hero",
      width |-> 0, height |-> 0, context |-> "css(.hero)", tag |-> "css-bg" ]
REF_A_IMG ==
    [ url |-> "https://x.io/promo/a.jpg", alt |-> "Welcome", title |-> "Offer", class |-> "",
      width |-> 600, height |-> 200, context |-> "", tag |-> "img" ]
REF_B_IMG ==
    [ url |-> "https://x.io/b.png", alt |-> "", title |-> "", class |-> "",
      width |-> 0, height |-> 0, context |-> "", tag |-> "img" ]
REF_FAVICON ==
    [ url |-> "https://x.io/favicon.png", alt |-> "Promo", title |-> "", class |-> "",
      width |-> 0, height |-> 0, context |-> "", tag |-> "img" ]
REF_SLIDE ==
    [ url |-> "https://x.io/slide2.gif", alt |-> "", title |-> "", class |-> "",
      width |-> 300, height |-> 600, context |-> "", tag |-> "source" ]

Refs == { REF_A_CSS, REF_A_IMG, REF_B_IMG, REF_FAVICON, REF_SLIDE }

\* Every list of at most MaxRefs image dicts.
RefLists == UNION { [1..n -> Refs] : n \in 0..MaxRefs }

\* The answers a session gives during a run: a good PNG, an HTTP error, a
\* body that is too small, a good PNG whose write fails part-way, and a
\* good PNG during whose write the user interrupts the program.
RunResponses ==
    { Response("none", 200, "image/png", [head |-> PNG_HEAD, size |-> 600], "ok"),
      Response("none", 404, "text/html", [head |-> HTML_HEAD, size |-> 600], "ok"),
      Response("none", 200, "image/png", [head |-> PNG_HEAD, size |-> 400], "ok"),
      Response("none", 200, "image/png", [head |-> PNG_HEAD, size |-> 600], "partial"),
      Response("none", 200, "image/png", [head |-> PNG_HEAD, size |-> 600], "interrupted") }

\* Mutant of dedup: the URL is not looked up in seen_urls.
dedup_without_lookup(seen, uniq, im) ==
    [seen_urls |-> seen \cup {im.url}, unique |-> Append(uniq, im)]

\* Mutant of dedup: a later sighting of a URL replaces the one kept.
dedup_last_wins(seen, uniq, im) ==
    IF im.url \notin seen
    THEN [seen_urls |-> seen \cup {im.url}, unique |-> Append(uniq, im)]
    ELSE [seen_urls |-> seen,
          unique |-> [n \in 1..Len(uniq) |-> IF uniq[n].url = im.url THEN im ELSE uniq[n]]]

\* The body of the deduplication loop for one image dict: seen_urls and
\* unique after it.
dedup(seen, uniq, im) ==
    IF im.url \notin seen
    THEN [seen_urls |-> seen \cup {im.url}, unique |-> Append(uniq, im)]
    ELSE [seen_urls |-> seen, unique |-> uniq]

RECURSIVE Filter(_, _)
\* [img for img in images if is_banner_candidate(img, include_all=all)]
Filter(images, all) ==
    IF images = <<>> THEN <<>>
    ELSE IF is_banner_candidate(Head(images), all)
         THEN <<Head(images)>> \o Filter(Tail(images), all)
         ELSE Filter(Tail(images), all)

\* meta after meta["alt"], meta["title"], meta["source_tag"] and
\* meta["context"] are set from the candidate.
with_candidate(m, im) ==
    [ file |-> m.file, filename |-> m.filename, url |-> m.url, width |-> m.width,
      height |-> m.height, size_bytes |-> m.size_bytes, format |-> m.format,
      alt |-> im.alt, title |-> im.title, source_tag |-> im.tag, context |-> im.context ]

\* Mutant of record_download: the result is appended whatever it is.
record_download_always(done, m, im) ==
    Append(done, IF m # None THEN with_candidate(m, im) ELSE m)

\* Mutant of record_download: the newest entry is put first.
record_download_first(done, m, im) ==
    IF m # None THEN <<with_candidate(m, im)>> \o done ELSE done

\* "if meta:" and its block: downloaded after one download_image result.
record_download(done, m, im) ==
    IF m # None THEN Append(done, with_candidate(m, im)) ELSE done

\* Mutant of manifest_of: the two counts are taken from the wrong lists.
manifest_of_swapped(found, done, all) ==
    [ source_url         |-> PAGE_URL,
      total_images_found |-> Len(done),
      banners_downloaded |-> Len(found),
      all_images_mode    |-> all,
      images             |-> done ]

\* The manifest dict (scraped_at, the time of writing, is left out).
manifest_of(found, done, all) ==
    [ source_url         |-> PAGE_URL,
      total_images_found |-> Len(found),
      banners_downloaded |-> Len(done),
      all_images_mode    |-> all,
      images             |-> done ]

Init ==
    /\ pc = "fetch"
    /\ IdleSniff
    /\ IdleParse
    /\ IdleBatch
    /\ error = None
    /\ IdleClassify
    /\ all_images \in BOOLEAN
    /\ all_found = <<>>
    /\ pos = 1
    /\ seen_urls = {}
    /\ unique = <<>>
    /\ candidates = <<>>
    /\ i = 1
    /\ downloaded = <<>>
    /\ manifest = None
    /\ result = None
    /\ attempts = <<>>
    /\ md5 \in HashTables
    /\ dl_url = ""
    /\ dl_index = 0
    /\ resp = None
    /\ meta = None
    /\ files = <<>>

\* fetch_page returns the HTML and the extractors fill all_found: the
\* references found are any list of image dicts with a non-empty URL.
FetchAndParse ==
    /\ pc = "fetch"
    /\ \E refs \in RefLists : all_found' = refs
    /\ pos' = 1
    /\ seen_urls' = {}
    /\ unique' = <<>>
    /\ pc' = "dedup"
    /\ UNCHANGED <<batchVars, sniffVars, parseVars, error, classVars, callVars, all_images, candidates, i, downloaded,
                   manifest, result, attempts>>

\* fetch_page raises (connection error, timeout, HTTP error status): the
\* exception leaves scrape_banners.
FetchFails ==
    /\ pc = "fetch"
    /\ pc' = "raised"
    /\ \E exc \in {"ConnectionError", "Timeout", "HTTPError"} :
         error' = Raised("fetch_page", exc)
    /\ UNCHANGED <<batchVars, sniffVars, parseVars, classVars, callVars, runVars>>

\* One turn of "for img in all_found".
DedupStep ==
    /\ pc = "dedup"
    /\ pos <= Len(all_found)
    /\ LET out == dedup(seen_urls, unique, all_found[pos]) IN
       /\ seen_urls' = out.seen_urls
       /\ unique' = out.unique
    /\ pos' = pos + 1
    /\ UNCHANGED <<batchVars, sniffVars, parseVars, pc, error, classVars, callVars, all_images, all_found, candidates, i,
                   downloaded, manifest, result, attempts>>

\* The loop is over: filter, and return [] when nothing is left.
FilterCandidates ==
    /\ pc = "dedup"
    /\ pos > Len(all_found)
    /\ candidates' = Filter(unique, all_images)
    /\ IF candidates' = <<>>
       THEN pc' = "done" /\ result' = <<>>
       ELSE pc' = "download" /\ result' = result
    /\ i' = 1
    /\ downloaded' = <<>>
    /\ UNCHANGED <<batchVars, sniffVars, parseVars, error, classVars, callVars, all_images, all_found, pos, seen_urls,
                   unique, manifest, attempts>>

\* One turn of "for i, img in enumerate(candidates, 1)".
DownloadStep ==
    /\ pc = "download"
    /\ i <= Len(candidates)
    /\ \E r \in RunResponses :
         LET im  == candidates[i]
             out == download_image(files, md5, im.url, i, r)
         IN  /\ dl_url' = im.url
             /\ dl_index' = i
             /\ resp' = r
             /\ meta' = out.meta
             /\ files' = out.files
             /\ attempts' = Append(attempts, [url |-> im.url, index |-> i, resp |-> r,
                                               meta |-> out.meta])
             /\ IF out.exc = ""
                THEN /\ downloaded' = record_download(downloaded, out.meta, im)
                     /\ i' = i + 1
                     /\ UNCHANGED <<pc, error>>
                ELSE /\ pc' = "raised"
                     /\ error' = Raised("download_image", out.exc)
                     /\ UNCHANGED <<downloaded, i>>
    /\ UNCHANGED <<batchVars, sniffVars, parseVars, classVars, md5, all_images, all_found, pos, seen_urls, unique,
                   candidates, manifest, result>>

\* The loop is over: write manifest.json and return downloaded.
SaveManifest ==
    /\ pc = "download"
    /\ i > Len(candidates)
    /\ manifest' = manifest_of(unique, downloaded, all_images)
    /\ result' = downloaded
    /\ pc' = "done"
    /\ UNCHANGED <<batchVars, sniffVars, parseVars, error, classVars, callVars, all_images, all_found, pos, seen_urls,
                   unique, candidates, i, downloaded, attempts>>

\* The except clauses of main: "except requests.ConnectionError" and
\* "except Exception".  KeyboardInterrupt is matched by neither.
main_catches(exc) ==
    exc \in {"ConnectionError", "Timeout", "HTTPError", "ChunkedEncodingError", "OSError"}

\* main, when scrape_banners raised: both handlers end in sys.exit(1); an
\* exception that no handler matches ends the program with a traceback.
MainExcept ==
    /\ pc = "raised"
    /\ pc' = IF main_catches(error.exc) THEN "exit_1" ELSE "traceback"
    /\ UNCHANGED <<batchVars, sniffVars, parseVars, error, classVars, runVars, callVars>>

Next ==
    \/ FetchAndParse
    \/ FetchFails
    \/ DedupStep
    \/ FilterCandidates
    \/ DownloadStep
    \/ SaveManifest
    \/ MainExcept

Spec == Init /\ [][Next]_vars

(***************************************************************************)
(* Claims about scrape_banners                                             *)
(***************************************************************************)

\* The deduplication loop has run to its end.
DedupDone == pc \in {"dedup", "download", "done"} /\ pos > Len(all_found)

\* The URLs of the first n references.
UrlsOfFirst(n) == { all_found[k].url : k \in 1..n }

\* The first position in all_found of a reference with URL u.
FirstSighting(u) ==
    CHOOSE k \in 1..Len(all_found) :
        all_found[k].url = u /\ \A j \in 1..(k - 1) : all_found[j].url # u

\* All sightings of URL u.
Sightings(u) == { all_found[k] : k \in { j \in 1..Len(all_found) : all_found[j].url = u } }

\* C4: after deduplication the unique list holds exactly one entry per
\* distinct URL occurring in the references: no two entries share a URL and
\* no distinct URL is missing.  (While the loop runs, the same holds of the
\* references it has passed.)
C4_OneEntryPerUrl ==
    /\ \A a, b \in 1..Len(unique) : a # b => unique[a].url # unique[b].url
    /\ { unique[k].url : k \in 1..Len(unique) } = UrlsOfFirst(pos - 1)
    /\ DedupDone => { unique[k].url : k \in 1..Len(unique) } = UrlsOfFirst(Len(all_found))

\* C4 witness: three references, two of them to one URL, gave two entries.
C4_Witness ==
    /\ DedupDone
    /\ Len(all_found) = 3
    /\ Cardinality(UrlsOfFirst(3)) = 2
    /\ Len(unique) = 2

SuccessfulAttempts == SelectSeq(attempts, LAMBDA a : a.meta # None)

\* The entry is the record of a download that succeeded: a call returned
\* metadata for its URL and file, and the file is in the directory, whole.
IsSuccessEntry(e) ==
    /\ e # None
    /\ \E k \in 1..Len(attempts) :
           /\ attempts[k].meta # None
           /\ attempts[k].meta.filename = e.filename
           /\ attempts[k].url = e.url
    /\ e.filename \in DOMAIN files
    /\ files[e.filename].complete

\* C6: in every manifest written, banners_downloaded is the number of
\* successful entries of its list (which is the number of downloads that
\* succeeded), and total_images_found is the number of unique candidates
\* before filtering, that is of distinct URLs among the references.
C6_ManifestCounts ==
    manifest # None =>
        /\ manifest.banners_downloaded =
               Cardinality({ k \in 1..Len(manifest.images) : IsSuccessEntry(manifest.images[k]) })
        /\ manifest.banners_downloaded = Len(SuccessfulAttempts)
        /\ manifest.total_images_found = Cardinality(UrlsOfFirst(Len(all_found)))

\* C6 witness: a manifest of a run in which filtering dropped a candidate,
\* one download failed and one succeeded.
C6_Witness ==
    /\ manifest # None
    /\ Len(candidates) < Len(unique)
    /\ Len(attempts) = 2
    /\ Len(SuccessfulAttempts) = 1
    /\ manifest.banners_downloaded = 1
    /\ manifest.total_images_found = 3

DownloadFailure(e) ==
    /\ e # None
    /\ e.fn = "download_image"
    /\ e.exc \in {"ConnectionError", "HTTPError", "ChunkedEncodingError", "OSError"}

\* C8: a failure of a single download never aborts the run: no exception of
\* a failing download leaves scrape_banners, the candidates are attempted
\* once each in list order, and a run that had candidates ends with the
\* manifest written and the list of downloads returned.
C8_FailuresNeverAbort ==
    /\ ~DownloadFailure(error)
    /\ pc \in {"download", "done"} =>
           /\ Len(attempts) <= Len(candidates)
           /\ \A k \in 1..Len(attempts) :
                  attempts[k].url = candidates[k].url /\ attempts[k].index = k
    /\ pc = "download" => Len(attempts) = i - 1
    /\ (pc = "done" /\ candidates # <<>>) =>
           /\ Len(attempts) = Len(candidates)
           /\ manifest # None
           /\ result = downloaded

\* C8 witness: a finished run of two candidates whose first download failed
\* while writing the file and whose second got an HTTP error.
C8_Witness ==
    /\ pc = "done"
    /\ Len(candidates) = 2
    /\ Len(attempts) = 2
    /\ attempts[1].resp.write = "partial"
    /\ attempts[2].resp.status = 404
    /\ manifest # None
    /\ result = <<>>

\* C11 as stated: every run whose page fetch succeeded ends with the
\* manifest written, and the manifest lists what the run returns; a run
\* with no qualifying candidate has a manifest with an empty list.
C11_ManifestOnEveryRun ==
    pc = "done" => (manifest # None /\ manifest.images = result)

\* What the code does about the manifest: it is written by the run that
\* had candidates, once the last candidate was attempted and as the last
\* step before returning; the run without candidates returns [] and writes
\* none.
ManifestOnlyWithCandidates ==
    /\ manifest # None => (pc = "done" /\ candidates # <<>>)
    /\ (pc = "done" /\ candidates # <<>>) =>
           /\ manifest = manifest_of(unique, downloaded, all_images)
           /\ Len(attempts) = Len(candidates)
    /\ (pc = "done" /\ candidates = <<>>) => (manifest = None /\ result = <<>>)

\* The entries are in the order of the candidates: taken two by two, the
\* candidate of the earlier entry precedes the candidate of the later one.
InCandidateOrder(entries) ==
    \A a, b \in 1..Len(entries) :
        a < b => \E ka, kb \in 1..Len(candidates) :
                     /\ ka < kb
                     /\ candidates[ka].url = entries[a].url
                     /\ candidates[kb].url = entries[b].url

\* C12: the entries of the manifest (and of the list they are taken from,
\* all through the download loop) appear in the order of the candidates: if
\* candidate A precedes candidate B in the filtered list and both have
\* entries, A's entry precedes B's, whatever downloads failed in between.
C12_ManifestOrder ==
    /\ InCandidateOrder(downloaded)
    /\ manifest # None => InCandidateOrder(manifest.images)

\* C12 witness: a manifest of three candidates whose second download
\* failed: the entries are the first and the third candidate, in that order.
C12_Witness ==
    /\ manifest # None
    /\ Len(candidates) = 3
    /\ attempts[2].meta = None
    /\ Len(manifest.images) = 2
    /\ manifest.images[1].url = candidates[1].url
    /\ manifest.images[2].url = candidates[3].url

(***************************************************************************)
(* The files of the download attempts of one run                           *)
(***************************************************************************)

\* Positions of enumerate(candidates, 1) at which attempts are observed:
\* the start of a run, and the indexes around the width of the 03d field.
NameIndexes == { 1, 2, 99, 100, 999, 1000, 1001 }

\* How many attempts of the run are observed.
MaxAttempts == 2

\* Answers to the attempts observed: a PNG, a JPEG, an unrecognized body
\* declared as PNG, and an HTTP error.
AttemptResponses ==
    { Response("none", 200, "image/png", [head |-> PNG_HEAD, size |-> 600], "ok"),
      Response("none", 200, "image/jpeg", [head |-> JPG_HEAD, size |-> 600], "ok"),
      Response("none", 200, "image/png", [head |-> HTML_HEAD, size |-> 700], "ok"),
      Response("none", 404, "text/html", [head |-> HTML_HEAD, size |-> 600], "ok") }

InitAttempts ==
    /\ pc = "attempts"
    /\ IdleSniff
    /\ IdleParse
    /\ IdleBatch
    /\ error = None
    /\ IdleClassify
    /\ IdleRun
    /\ md5 \in HashTables
    /\ dl_url = ""
    /\ dl_index = 0
    /\ resp = None
    /\ meta = None
    /\ files = <<>>

\* One turn of the download loop, at a later position of the candidate
\* list than the turns observed before it, for a candidate whose URL is not
\* that of an earlier one (the candidates have distinct URLs).
Attempt ==
    /\ pc = "attempts"
    /\ Len(attempts) < MaxAttempts
    /\ \E index \in NameIndexes, u \in Urls, r \in AttemptResponses :
         /\ \A k \in 1..Len(attempts) : attempts[k].index < index /\ attempts[k].url # u
         /\ LET out == download_image(files, md5, u, index, r) IN
            /\ dl_url' = u
            /\ dl_index' = index
            /\ resp' = r
            /\ meta' = out.meta
            /\ files' = out.files
            /\ attempts' = Append(attempts, [url |-> u, index |-> index, resp |-> r,
                                              meta |-> out.meta])
    /\ UNCHANGED <<batchVars, sniffVars, parseVars, pc, error, classVars, md5, all_images, all_found, pos, seen_urls,
                   unique, candidates, i, downloaded, manifest, result>>

NextAttempts == Attempt

SpecAttempts == InitAttempts /\ [][NextAttempts]_vars

\* C13: within one run no two download attempts write to the same file
\* name: the attempts that stored a file stored it under names that differ
\* two by two, also when the URLs have the same 8-digit hash and when an
\* index has more than three digits, and no attempt overwrote the file of
\* an earlier one: each file still holds what its own attempt wrote.
C13_DistinctFileNames ==
    /\ \A a, b \in 1..Len(attempts) :
           (a # b /\ attempts[a].meta # None /\ attempts[b].meta # None)
               => attempts[a].meta.filename # attempts[b].meta.filename
    /\ \A a \in 1..Len(attempts) :
           attempts[a].meta # None =>
               /\ attempts[a].meta.filename \in DOMAIN files
               /\ files[attempts[a].meta.filename].data = attempts[a].resp.data
    /\ Cardinality(DOMAIN files) =
           Cardinality({ a \in 1..Len(attempts) : attempts[a].meta # None })

\* C13 witness: two attempts, at the indexes 1 and 1001, for URLs whose
\* hashes collide, stored in the same format: two files exist.
C13_Witness ==
    /\ Len(attempts) = 2
    /\ attempts[1].index = 1
    /\ attempts[2].index = 1001
    /\ md5[attempts[1].url] = md5[attempts[2].url]
    /\ attempts[1].meta # None
    /\ attempts[2].meta # None
    /\ attempts[1].meta.format = attempts[2].meta.format
    /\ Cardinality(DOMAIN files) = 2

(***************************************************************************)
(* detect_image_type and get_image_dimensions on one file, the JPEG        *)
(* marker scan taken one turn at a time                                    *)
(***************************************************************************)

\* while i < len(data) - 9
in_scan(data, o) == o < ByteLen(data) - 9

\* data[i] == 0xFF and data[i + 1] in (0xC0, 0xC2)
at_sof(data, o) == ByteAt(data, o) = 255 /\ ByteAt(data, o + 1) \in {192, 194}

\* Mutant of sof_dim: the width is read before the height.
sof_dim_width_first(data, o) ==
    Dim(BigEndian16(Slice(data, o + 5, o + 7)), BigEndian16(Slice(data, o + 7, o + 9)))

\* h, w = struct.unpack(">HH", data[i + 5 : i + 9]); return w, h
sof_dim(data, o) ==
    Dim(BigEndian16(Slice(data, o + 7, o + 9)), BigEndian16(Slice(data, o + 5, o + 7)))

\* Mutant of scan_next: a segment is skipped by its declared length alone.
scan_next_length_only(data, o) ==
    IF ByteAt(data, o) = 255
    THEN o + BigEndian16(Slice(data, o + 2, o + 4))
    ELSE o + 1

\* i after one turn of the loop that did not return.
scan_next(data, o) ==
    IF ByteAt(data, o) = 255
    THEN o + 2 + BigEndian16(Slice(data, o + 2, o + 4))
    ELSE o + 1

\* What a stretch of the try block comes to: a return, an exception, or
\* the entry into the marker scan.
Returns(dim) == [kind |-> "return", dim |-> dim, exc |-> ""]
Raises(exc) == [kind |-> "raise", dim |-> Dim(0, 0), exc |-> exc]
Scans == [kind |-> "scan", dim |-> Dim(0, 0), exc |-> ""]

\* The try block from the GIF test on.  struct.unpack("<HH", s) raises
\* struct.error when s is not 4 bytes long.
after_scan(data) ==
    LET header == Slice(data, 0, 32) IN
    IF SubSeq(header, 1, Min(3, Len(header))) = TAG_GIF
    THEN IF Len(header) >= 10
         THEN Returns(Dim(LittleEndian16(SubSeq(header, 7, 8)),
                          LittleEndian16(SubSeq(header, 9, 10))))
         ELSE Raises("struct.error")
    ELSE Returns(Dim(0, 0))

\* The try block up to the marker scan.  struct.unpack(">II", s) raises
\* struct.error when s is not 8 bytes long.
before_scan(data) ==
    LET header == Slice(data, 0, 32) IN
    IF SubSeq(header, 1, Min(4, Len(header))) = SIG_PNG
    THEN IF Len(header) >= 24
         THEN Returns(Dim(BigEndian32(header, 17), BigEndian32(header, 21)))
         ELSE Raises("struct.error")
    ELSE IF Slice(data, 0, 2) = SOI
    THEN Scans
    ELSE after_scan(data)

\* "except Exception: pass": struct.error is an Exception.
dimensions_caught(exc) == exc \in {"struct.error"}

\* get_image_dimensions leaves the try block with out: it returns the pair,
\* or (0, 0) after the except clause, or the exception leaves it.
LeaveDimensions(out) ==
    IF out.kind = "return"
    THEN /\ dims' = Ret(out.dim)
         /\ pc' = "returned"
         /\ error' = error
    ELSE IF dimensions_caught(out.exc)
    THEN /\ dims' = Ret(Dim(0, 0))
         /\ pc' = "returned"
         /\ error' = error
    ELSE /\ dims' = dims
         /\ pc' = "raised"
         /\ error' = Raised("get_image_dimensions", out.exc)

\* The bytes value b"..." of a file.
Bytes(head) == [head |-> head, size |-> Len(head)]

\* The prefixes of a byte string: the file cut short at every length.
Prefixes(head) == { SubSeq(head, 1, n) : n \in 0..Len(head) }

\* A JPEG segment: FF, the marker, the length on two bytes (big-endian,
\* counting itself) and the payload.
Segment(marker, payload) ==
    << 255, marker, (Len(payload) + 2) \div 256, (Len(payload) + 2) % 256 >> \o payload

\* A start-of-frame segment for one component, encoding height h, width w.
SOF(marker, h, w) ==
    Segment(marker, << 8, h \div 256, h % 256, w \div 256, w % 256, 1, 1, 17, 0 >>)

\* Segments that may precede the frame header: an empty APP0, an APP1
\* whose payload looks like a frame header, a DHT (C4), a SOF1 (C1) and a
\* comment of 300 bytes.
LeadSegments ==
    { Segment(224, << >>),
      Segment(225, << 255, 192, 0, 11, 8, 0, 9, 0, 9 >>),
      Segment(196, << 0 >>),
      Segment(193, << 8, 0, 7, 0, 7, 1 >>),
      Segment(254, [n \in 1..300 |-> 32]) }

\* How many segments precede the frame header.
MaxSegments == 2

RECURSIVE Concat(_)
\* b"".join(parts)
Concat(parts) == IF parts = <<>> THEN <<>> ELSE Head(parts) \o Concat(Tail(parts))

\* FF D8, the segments, and the frame header.
JpegChain(segs, marker, h, w) == SOI \o Concat(segs) \o SOF(marker, h, w)

ChainDims == { Dim(300, 150), Dim(640, 100), Dim(1, 65535) }

\* JPEG files made of a chain of segments, with the size they encode.
ChainFiles ==
    { [ bytes |-> Bytes(JpegChain(segs, marker, d.h, d.w)), expected |-> d ] :
        segs \in UNION { [1..n -> LeadSegments] : n \in 0..MaxSegments },
        marker \in {192, 194}, d \in ChainDims }

GIF90A_HEAD == << 71, 73, 70, 57, 48, 97, 44, 1, 150, 0 >>     \* b"GIF90a", 300 x 150
SOI_00_HEAD == << 255, 216, 0 >> \o SOF(192, 150, 300)          \* FF D8 00, then SOF0
ZERO_LENGTH_HEAD ==                                             \* a segment of length 0
    << 255, 216, 255, 224, 0, 0 >> \o SOF(192, 150, 300)
PAST_END_HEAD ==                                                \* a length past the end
    << 255, 216, 255, 224, 255, 255 >> \o SOF(192, 150, 300)
NO_FRAME_HEAD ==                                                \* segments, no SOF
    << 255, 216 >> \o Segment(224, << 1, 2, 3 >>) \o Segment(254, << 65, 66, 67, 68, 69, 70 >>)

\* Files that were not built as a chain: every truncation of a PNG, a JPEG
\* and a GIF header, files with no known signature, files whose first bytes
\* are almost a signature, and JPEG files with broken segments.
OtherFiles ==
    { [ bytes |-> Bytes(h), expected |-> None ] :
        h \in Prefixes(PNG_HEAD) \cup Prefixes(JPG_HEAD) \cup Prefixes(GIF_HEAD)
              \cup Prefixes(NO_FRAME_HEAD)
              \cup { WEBP_HEAD, WAVE_HEAD, HTML_HEAD, GIF90A_HEAD, SOI_00_HEAD,
                     ZERO_LENGTH_HEAD, PAST_END_HEAD } }
    \cup { [ bytes |-> [head |-> NO_FRAME_HEAD, size |-> 40], expected |-> None ] }

InitSniff ==
    /\ pc = "sniff"
    /\ error = None
    /\ IdleClassify
    /\ IdleRun
    /\ IdleCall
    /\ IdleParse
    /\ IdleBatch
    /\ \E f \in ChainFiles \cup OtherFiles :
         /\ file_bytes = f.bytes
         /\ expected = f.expected
    /\ scan = 0
    /\ fmt = None
    /\ dims = None

\* fmt = detect_image_type(data)
DetectImageType ==
    /\ pc \in {"sniff", "scan", "returned"}
    /\ fmt = None
    /\ fmt' = Ret(detect_image_type(file_bytes))
    /\ UNCHANGED <<batchVars, pc, error, classVars, runVars, callVars, parseVars,
                   file_bytes, expected, scan, dims>>

\* get_image_dimensions from its first line to the marker scan, or to its
\* return when the file is not a JPEG.
DimensionsBegin ==
    /\ pc = "sniff"
    /\ LET out == before_scan(file_bytes) IN
       IF out.kind = "scan"
       THEN /\ pc' = "scan"
            /\ scan' = 2
            /\ UNCHANGED <<dims, error>>
       ELSE /\ LeaveDimensions(out)
            /\ scan' = scan
    /\ UNCHANGED <<batchVars, classVars, runVars, callVars, parseVars, file_bytes, expected, fmt>>

\* One turn of "while i < len(data) - 9".
ScanStep ==
    /\ pc = "scan"
    /\ in_scan(file_bytes, scan)
    /\ IF at_sof(file_bytes, scan)
       THEN /\ LeaveDimensions(Returns(sof_dim(file_bytes, scan)))
            /\ scan' = scan
       ELSE /\ scan' = scan_next(file_bytes, scan)
            /\ UNCHANGED <<pc, dims, error>>
    /\ UNCHANGED <<batchVars, classVars, runVars, callVars, parseVars, file_bytes, expected, fmt>>

\* The loop ends without a frame header: the rest of the function.
ScanEnd ==
    /\ pc = "scan"
    /\ ~in_scan(file_bytes, scan)
    /\ LeaveDimensions(after_scan(file_bytes))
    /\ UNCHANGED <<batchVars, classVars, runVars, callVars, parseVars, file_bytes, expected, fmt, scan>>

NextSniff ==
    \/ DetectImageType
    \/ DimensionsBegin
    \/ ScanStep
    \/ ScanEnd

SpecSniff == InitSniff /\ [][NextSniff]_vars

\* The interpreter runs a call to its end.
SpecSniffFair == SpecSniff /\ WF_vars(NextSniff)

\* The turns of the scan, taken together, are the function as a whole.
ScanAgreesWithFunction ==
    (pc = "returned" /\ dims # None) => dims = Ret(get_image_dimensions(file_bytes))

\* C14 as stated: on every file for which detect_image_type returns no
\* format, get_image_dimensions returns (0, 0).
C14_UnrecognizedGivesZero ==
    (fmt = Ret(NoType) /\ dims # None) => dims = Ret(Dim(0, 0))

\* Where the two functions do agree: a file without a format that starts
\* neither with FF D8 nor with "GIF" has the dimensions (0, 0).
UnrecognizedGivesZeroUnlessPrefix ==
    (fmt = Ret(NoType) /\ dims # None
        /\ Slice(file_bytes, 0, 2) # SOI /\ Slice(file_bytes, 0, 3) # TAG_GIF)
    => dims = Ret(Dim(0, 0))

\* The value is a pair of numbers that are not negative.
IsPair(v) == DOMAIN v = {"w", "h"} /\ v.w \in Nat /\ v.h \in Nat

\* The file is cut short of what its format's header needs, or it is a
\* JPEG whose scan met no frame header.
ParseFailure ==
    \/ Slice(file_bytes, 0, 4) = SIG_PNG /\ ByteLen(file_bytes) < 24
    \/ Slice(file_bytes, 0, 3) = TAG_GIF /\ ByteLen(file_bytes) < 10
    \/ pc = "returned" /\ scan >= 2 /\ ~in_scan(file_bytes, scan)

\* C15: get_image_dimensions is total.  On every file, truncated headers
\* and JPEG segments with a declared length of 0 or past the end of the
\* buffer included: no exception leaves the function; each turn of the
\* marker scan that does not return moves i forward; the scan ends only at
\* the end of the buffer or at a C0/C2 marker; the call returns, and what it
\* returns is a pair, (0, 0) on a parse failure.
C15_DimensionsTotal ==
    /\ [](error = None /\ pc # "raised")
    /\ [](dims # None => IsPair(dims.ret))
    /\ []((dims # None /\ ParseFailure) => dims = Ret(Dim(0, 0)))
    /\ [][(ScanStep /\ pc' = "scan") => scan' > scan]_vars
    /\ [][(pc = "scan" /\ pc' # "scan") =>
              (~in_scan(file_bytes, scan) \/ at_sof(file_bytes, scan))]_vars
    /\ <>(dims # None)

\* C15 witness: the scan went over a segment of declared length 0 and then
\* found the frame header.
C15_Witness ==
    /\ file_bytes = Bytes(ZERO_LENGTH_HEAD)
    /\ pc = "returned"
    /\ scan = 6
    /\ dims = Ret(Dim(300, 150))

\* C16: for every JPEG file made of a chain of segments starting at offset
\* 2 whose first C0 or C2 segment encodes height H and width W, the scan
\* goes from segment to segment by the declared lengths (i is always at the
\* FF of a segment) and get_image_dimensions returns exactly (W, H); so it
\* does for the file whose only segment is a SOF0 of 300 x 150.
C16_JpegChainDimensions ==
    expected # None =>
        /\ pc = "scan" => ByteAt(file_bytes, scan) = 255
        /\ dims # None => dims = Ret(expected)

\* C16 witness: the file whose only segment is a SOF0 encoding width 300
\* and height 150.
C16_Witness ==
    /\ dims = Ret(Dim(300, 150))
    /\ expected = Dim(300, 150)
    /\ file_bytes = Bytes(JpegChain(<<>>, 192, 150, 300))

(***************************************************************************)
(* Claims about the failures that leave scrape_banners                     *)
(***************************************************************************)

\* The page fetch failed: fetch_page raised.
FetchFailed == error # None /\ error.fn = "fetch_page"

\* C17 as stated: a page-level fetch failure is never fatal: no exception
\* of fetch_page leaves the run and the program does not exit with an
\* error; the run ends in its normal, possibly empty, result.
C17_FetchFailureNotFatal ==
    ~(FetchFailed /\ pc \in {"raised", "exit_1", "traceback"})

\* What the code does: the exception of fetch_page leaves scrape_banners
\* before anything was parsed, main ends the program with sys.exit(1), and
\* neither a result nor a manifest exists.
FetchFailureExits ==
    FetchFailed =>
        /\ pc \in {"raised", "exit_1"}
        /\ result = None
        /\ manifest = None
        /\ all_found = <<>>

\* The user interrupted the program during a download.
Interrupted ==
    error # None /\ error.fn = "download_image" /\ error.exc = "KeyboardInterrupt"

\* C18 as stated: after an interrupt during a download the manifest is
\* still produced; it holds the outcomes of the downloads completed before
\* the interrupt, and it does not list the partially written file.
C18_InterruptKeepsManifest ==
    (Interrupted /\ pc # "raised") =>
        /\ manifest # None
        /\ manifest.images = downloaded
        /\ \A n \in 1..Len(manifest.images) : files[manifest.images[n].filename].complete

\* What the code does: KeyboardInterrupt passes "except Exception" in
\* download_image and in main, so the program ends with a traceback, no
\* manifest is written, the downloads made so far are in no list that
\* outlives the program, and the partial file stays in the directory.
InterruptEndsProgram ==
    Interrupted =>
        /\ pc \in {"raised", "traceback"}
        /\ manifest = None
        /\ result = None
        /\ \E name \in DOMAIN files : ~files[name].complete

(***************************************************************************)
(* Extraction of the image references of a document                        *)
(***************************************************************************)

\* text.startswith(prefix)
StartsWith(text, prefix) ==
    Len(text) >= Len(prefix) /\ SubSeq(text, 1, Len(prefix)) = prefix

\* text.find(part, start) as a position from 1, 0 when part is not found
RECURSIVE Find(_, _, _)
Find(text, part, start) ==
    IF start + Len(part) - 1 > Len(text) THEN 0
    ELSE IF SubSeq(text, start, start + Len(part) - 1) = part THEN start
    ELSE Find(text, part, start + 1)

\* text.rfind("/") as a position from 1, 0 when there is none
RECURSIVE LastSlash(_, _)
LastSlash(text, n) ==
    IF n = 0 THEN 0
    ELSE IF SubSeq(text, n, n) = "/" THEN n
    ELSE LastSlash(text, n - 1)

\* text.strip(), for the blanks that occur in attribute values
RECURSIVE Strip(_)
Strip(text) ==
    IF text = "" THEN ""
    ELSE IF SubSeq(text, 1, 1) = " " THEN Strip(SubSeq(text, 2, Len(text)))
    ELSE IF SubSeq(text, Len(text), Len(text)) = " " THEN Strip(SubSeq(text, 1, Len(text) - 1))
    ELSE text

\* text.split(sep)
RECURSIVE Split(_, _)
Split(text, sep) ==
    LET at == Find(text, sep, 1) IN
    IF at = 0 THEN << text >>
    ELSE << SubSeq(text, 1, at - 1) >> \o Split(SubSeq(text, at + Len(sep), Len(text)), sep)

\* part.split()[0] for a part that is stripped and not empty
FirstToken(part) ==
    LET at == Find(part, " ", 1) IN
    IF at = 0 THEN part ELSE SubSeq(part, 1, at - 1)

\* sep.join(parts)
RECURSIVE Join(_, _)
Join(parts, sep) ==
    IF parts = <<>> THEN ""
    ELSE IF Len(parts) = 1 THEN parts[1]
    ELSE parts[1] \o sep \o Join(Tail(parts), sep)

\* parts[-n:]
LastN(parts, n) ==
    IF Len(parts) <= n THEN parts ELSE SubSeq(parts, Len(parts) - n + 1, Len(parts))

\* urljoin(base, url) for a base "scheme://host/path" and a url that is
\* absolute, or a path from the root, or a path from the base's directory.
urljoin(base, url) ==
    LET host == Find(base, "://", 1) + 3
        root == Find(base, "/", host)
    IN  IF url = "" THEN base
        ELSE IF Find(url, "://", 1) > 0 THEN url
        ELSE IF StartsWith(url, "/") THEN SubSeq(base, 1, root - 1) \o url
        ELSE SubSeq(base, 1, LastSlash(base, Len(base))) \o url

\* ImageHTMLParser._resolve
resolve(base_url, url) ==
    IF url = "" \/ StartsWith(url, "data:") THEN "" ELSE urljoin(base_url, url)

RECURSIVE srcset_urls(_, _)
\* The loop of _parse_srcset over the parts of srcset.split(",").
srcset_urls(base_url, parts) ==
    IF parts = <<>> THEN <<>>
    ELSE LET part == Strip(Head(parts))
             rest == srcset_urls(base_url, Tail(parts))
         IN  IF part = "" THEN rest
             ELSE LET resolved == resolve(base_url, FirstToken(part)) IN
                  IF resolved = "" THEN rest ELSE << resolved >> \o rest

\* ImageHTMLParser._parse_srcset
parse_srcset(base_url, srcset) ==
    IF srcset = "" THEN <<>> ELSE srcset_urls(base_url, Split(srcset, ","))

\* text.replace("px", "")
RECURSIVE RemovePx(_)
RemovePx(text) ==
    LET at == Find(text, "px", 1) IN
    IF at = 0 THEN text
    ELSE SubSeq(text, 1, at - 1) \o RemovePx(SubSeq(text, at + 2, Len(text)))

\* The value of a decimal digit, -1 for any other character.
DigitValue(c) ==
    IF \E d \in 1..10 : DIGITS[d] = c THEN (CHOOSE d \in 1..10 : DIGITS[d] = c) - 1 ELSE -1

RECURSIVE ParseDigits(_, _)
\* int(text) for text made of digits, with acc the value read so far; -1
\* when a character is not a digit (int raises ValueError).
ParseDigits(text, acc) ==
    IF text = "" THEN acc
    ELSE LET d == DigitValue(SubSeq(text, 1, 1)) IN
         IF d < 0 THEN -1 ELSE ParseDigits(SubSeq(text, 2, Len(text)), acc * 10 + d)

\* ImageHTMLParser._parse_dim: 0 for a missing value and on ValueError.
parse_dim(val) ==
    IF val = "" THEN 0
    ELSE LET text == Strip(RemovePx(val))
             neg  == StartsWith(text, "-")
             body == IF neg THEN SubSeq(text, 2, Len(text)) ELSE text
             n    == IF body = "" THEN -1 ELSE ParseDigits(body, 0)
         IN  IF n < 0 THEN 0 ELSE IF neg THEN 0 - n ELSE n

\* Unquote: the URL between url( and ), without the quotes around it.
Unquote(text) ==
    LET a == IF StartsWith(text, "'") \/ StartsWith(text, "\"")
             THEN SubSeq(text, 2, Len(text)) ELSE text
        n == Len(a)
    IN  IF n > 0 /\ SubSeq(a, n, n) \in {"'", "\""} THEN SubSeq(a, 1, n - 1) ELSE a

\* re.findall(r'background(?:-image)?\s*:[^;]*url\(["\']?([^"\')\s]+)["\']?\)',
\* style) for a style of at most one declaration with at most one url(...).
background_urls(style) ==
    LET decl  == Find(style, "background", 1)
        open  == IF decl = 0 THEN 0 ELSE Find(style, "url(", decl)
        close == IF open = 0 THEN 0 ELSE Find(style, ")", open)
    IN  IF close = 0 THEN <<>>
        ELSE LET inner == Unquote(SubSeq(style, open + 4, close - 1)) IN
             IF inner = "" THEN <<>> ELSE << inner >>

\* The attributes the extractors read, each "" when the tag has none.
NoAttrs ==
    [ class |-> "", id |-> "", src |-> "", data_src |-> "", data_lazy_src |-> "",
      srcset |-> "", style |-> "", alt |-> "", title |-> "", width |-> "", height |-> "" ]

\* The events HTMLParser.feed reports for <tag ...> and </tag>.
StartTag(tag, attr) == [kind |-> "start", tag |-> tag, attr |-> attr]
EndTag(tag) == [kind |-> "end", tag |-> tag, attr |-> NoAttrs]

\* The tags whose start and end handle_starttag and handle_endtag track.
CONTEXT_TAGS == { "div", "section", "header", "a", "figure" }

\* f"{tag}.{attr.get('class', '')} #{attr.get('id', '')}"
describe(tag, attr) == tag \o "." \o attr.class \o " #" \o attr.id

\* " > ".join(self._current_context[-3:])
context_of(ctx) == Join(LastN(ctx, 3), " > ")

\* An image dict with unknown dimensions, as the <source> and style
\* branches build it.
bare_image(found_url, class, context, tag) ==
    [ url |-> found_url, alt |-> "", title |-> "", class |-> class, width |-> 0,
      height |-> 0, srcset |-> <<>>, context |-> context, tag |-> tag ]

\* The <img> branch of handle_starttag: the dicts it appends.
parser_img(base_url, ctx, attr) ==
    LET src      == resolve(base_url, attr.src)
        data_src == resolve(base_url, IF attr.data_src # "" THEN attr.data_src
                                      ELSE attr.data_lazy_src)
    IN  IF src # "" \/ data_src # ""
        THEN << [ url     |-> IF src # "" THEN src ELSE data_src,
                  alt     |-> attr.alt,
                  title   |-> attr.title,
                  class   |-> attr.class,
                  width   |-> parse_dim(attr.width),
                  height  |-> parse_dim(attr.height),
                  srcset  |-> parse_srcset(base_url, attr.srcset),
                  context |-> context_of(ctx),
                  tag     |-> "img" ] >>
        ELSE <<>>

\* The dicts with unknown dimensions for the URLs of found, resolved
\* against the base, those that resolve to nothing left out.
bare_images(base_url, found, class, context, tag) ==
    LET resolved == [n \in 1..Len(found) |-> resolve(base_url, found[n])]
        kept     == SelectSeq(resolved, LAMBDA u : u # "")
    IN  [n \in 1..Len(kept) |-> bare_image(kept[n], class, context, tag)]

\* handle_starttag(tag, attrs): _current_context and images after it.
handle_starttag(base_url, ctx, found, tag, attr) ==
    LET ctx1 == IF tag \in CONTEXT_TAGS THEN Append(ctx, describe(tag, attr)) ELSE ctx
        imgs == IF tag = "img" THEN parser_img(base_url, ctx1, attr) ELSE <<>>
        srcs == IF tag = "source"
                THEN bare_images(base_url, parse_srcset(base_url, attr.srcset),
                                 attr.class, context_of(ctx1), "source")
                ELSE <<>>
        bgs  == IF attr.style # ""
                THEN bare_images(base_url, background_urls(attr.style),
                                 attr.class, context_of(ctx1), tag \o "[style]")
                ELSE <<>>
    IN  [ context |-> ctx1, images |-> found \o imgs \o srcs \o bgs ]

\* handle_endtag(tag): _current_context after it.
handle_endtag(ctx, tag) ==
    IF tag \in CONTEXT_TAGS /\ ctx # <<>> THEN SubSeq(ctx, 1, Len(ctx) - 1) ELSE ctx

\* Elements with no content: the tree builder closes them at once.
VOID_TAGS == { "img", "source" }

\* The innermost open element with this tag, 0 when there is none.
InnermostOpen(open, tag) ==
    IF \E k \in 1..Len(open) : open[k].tag = tag
    THEN CHOOSE k \in 1..Len(open) :
             open[k].tag = tag /\ \A j \in (k + 1)..Len(open) : open[j].tag # tag
    ELSE 0

\* The open elements after one event, as the tree of BeautifulSoup(html,
\* "html.parser") has them: a start tag opens an element inside the
\* innermost open one, an end tag closes the innermost open element of its
\* name together with the elements open inside it, and an end tag with no
\* open element of its name closes nothing.
open_after(open, e) ==
    IF e.kind = "start"
    THEN IF e.tag \in VOID_TAGS THEN open ELSE Append(open, [tag |-> e.tag, attr |-> e.attr])
    ELSE LET k == InnermostOpen(open, e.tag) IN
         IF k = 0 THEN open ELSE SubSeq(open, 1, k - 1)

RECURSIVE parents_at(_, _)
\* The elements open when the n-th event of the document is met.
parents_at(doc, n) ==
    IF n <= 1 THEN <<>> ELSE open_after(parents_at(doc, n - 1), doc[n - 1])

RECURSIVE Reverse(_)
Reverse(seq) == IF seq = <<>> THEN <<>> ELSE Reverse(Tail(seq)) \o << Head(seq) >>

\* " ".join(c for p in img.parents for c in (p.get("class") or [])), for
\* elements of one class at most: the classes from the innermost parent out.
parent_classes(parents) ==
    LET classes == [n \in 1..Len(parents) |-> parents[n].attr.class] IN
    Join(Reverse(SelectSeq(classes, LAMBDA c : c # "")), " ")

\* The body of "for img in soup.find_all('img')" for one <img>.
soup_img(base_url, parents, attr) ==
    LET src == IF attr.src # "" THEN attr.src
               ELSE IF attr.data_src # "" THEN attr.data_src
               ELSE attr.data_lazy_src
        set == parse_srcset(base_url, attr.srcset)
    IN  IF src = "" \/ StartsWith(src, "data:") THEN <<>>
        ELSE << [ url     |-> urljoin(base_url, src),
                  alt     |-> attr.alt,
                  title   |-> attr.title,
                  class   |-> attr.class,
                  width   |-> parse_dim(attr.width),
                  height  |-> parse_dim(attr.height),
                  srcset  |-> <<>>,
                  context |-> parent_classes(parents),
                  tag     |-> "img" ] >>
             \o [ n \in 1..Len(set) |->
                    [ url |-> set[n], alt |-> attr.alt, title |-> "", class |-> "",
                      width |-> 0, height |-> 0, srcset |-> <<>>,
                      context |-> parent_classes(parents), tag |-> "img[srcset]" ] ]

\* The body of "for source in soup.find_all('source')" for one <source>.
soup_source(base_url, attr) ==
    LET set == parse_srcset(base_url, attr.srcset) IN
    [ n \in 1..Len(set) |-> bare_image(set[n], "", "", "source") ]

\* The body of "for el in soup.find_all(style=True)" for one element.
soup_style(base_url, tag, attr) ==
    LET found == SelectSeq(background_urls(attr.style), LAMBDA u : ~StartsWith(u, "data:")) IN
    [ n \in 1..Len(found) |->
        bare_image(urljoin(base_url, found[n]), attr.class, tag, tag \o "[style]") ]

RECURSIVE soup_each(_, _, _, _)
\* One of the three find_all loops of the BeautifulSoup branch, from the
\* n-th event of the document on.
soup_each(base_url, doc, n, loop) ==
    IF n > Len(doc) THEN <<>>
    ELSE LET e == doc[n]
             here ==
                 IF e.kind # "start" THEN <<>>
                 ELSE IF loop = "img" /\ e.tag = "img"
                      THEN soup_img(base_url, parents_at(doc, n), e.attr)
                 ELSE IF loop = "source" /\ e.tag = "source"
                      THEN soup_source(base_url, e.attr)
                 ELSE IF loop = "style" /\ e.attr.style # ""
                      THEN soup_style(base_url, e.tag, e.attr)
                 ELSE <<>>
         IN  here \o soup_each(base_url, doc, n + 1, loop)

\* all_found after the BeautifulSoup branch.
soup_extract(base_url, doc) ==
    soup_each(base_url, doc, 1, "img") \o soup_each(base_url, doc, 1, "source")
        \o soup_each(base_url, doc, 1, "style")

(***************************************************************************)
(* One document given to both extraction branches                          *)
(***************************************************************************)

START_DIV == StartTag("div", [NoAttrs EXCEPT !.class = "promo", !.id = "top"])
START_SECTION ==
    StartTag("section", [NoAttrs EXCEPT !.class = "hero",
                                        !.style = "background-image: url('/bg.png')"])
START_A == StartTag("a", NoAttrs)
IMG_A ==
    StartTag("img", [NoAttrs EXCEPT !.src = "/promo/a.jpg", !.alt = "Welcome",
                                    !.width = "600", !.height = "200px"])
IMG_SRCSET ==
    StartTag("img", [NoAttrs EXCEPT !.src = "b.png", !.srcset = "b.png 1x, /b2.png 2x"])
IMG_LAZY ==
    StartTag("img", [NoAttrs EXCEPT !.src = "data:image/gif;base64,R0",
                                    !.data_src = "/lazy.png"])
SOURCE == StartTag("source", [NoAttrs EXCEPT !.srcset = "https://cdn.x.io/slide2.gif 1x"])

\* The tags that open the document: containers, each inside the one before.
Openers == { START_DIV, START_SECTION }

\* The tags that follow.
Followers ==
    { START_DIV, START_A, EndTag("div"), EndTag("a"), EndTag("span"),
      IMG_A, IMG_SRCSET, IMG_LAZY, SOURCE }

\* How many containers open the document, and how many tags follow.
MaxOpeners == 4
MaxFollowers == 2

Documents ==
    { opening \o following :
        opening \in UNION { [1..n -> Openers] : n \in 0..MaxOpeners },
        following \in UNION { [1..n -> Followers] : n \in 0..MaxFollowers } }

InitParse ==
    /\ pc = "parse"
    /\ error = None
    /\ IdleClassify
    /\ IdleRun
    /\ IdleCall
    /\ IdleSniff
    /\ IdleBatch
    /\ page \in Documents
    /\ ev = 1
    /\ current_context = <<>>
    /\ parser_images = <<>>
    /\ open_elements = <<>>
    /\ ancestors = <<>>
    /\ soup_images = None

\* The descriptions handle_starttag gives of the elements that are open.
Described(open) ==
    LET tracked == SelectSeq(open, LAMBDA el : el.tag \in CONTEXT_TAGS) IN
    [n \in 1..Len(tracked) |-> describe(tracked[n].tag, tracked[n].attr)]

\* parser.feed(html) reports a start tag.
HandleStartTag ==
    /\ pc = "parse"
    /\ ev <= Len(page)
    /\ page[ev].kind = "start"
    /\ LET e   == page[ev]
           out == handle_starttag(PAGE_URL, current_context, parser_images, e.tag, e.attr)
           now == open_after(open_elements, e)
       IN  /\ current_context' = out.context
           /\ parser_images' = out.images
           /\ open_elements' = now
           /\ ancestors' = ancestors \o
                  [n \in 1..(Len(out.images) - Len(parser_images)) |->
                      context_of(Described(now))]
    /\ ev' = ev + 1
    /\ UNCHANGED <<batchVars, pc, error, classVars, runVars, callVars, sniffVars, page, soup_images>>

\* parser.feed(html) reports an end tag.
HandleEndTag ==
    /\ pc = "parse"
    /\ ev <= Len(page)
    /\ page[ev].kind = "end"
    /\ current_context' = handle_endtag(current_context, page[ev].tag)
    /\ open_elements' = open_after(open_elements, page[ev])
    /\ ev' = ev + 1
    /\ UNCHANGED <<batchVars, pc, error, classVars, runVars, callVars, sniffVars, page,
                   parser_images, ancestors, soup_images>>

\* The same document through the branch taken when bs4 is installed.
SoupExtract ==
    /\ pc = "parse"
    /\ ev > Len(page)
    /\ soup_images = None
    /\ soup_images' = Ret(soup_extract(PAGE_URL, page))
    /\ pc' = "parsed"
    /\ UNCHANGED <<batchVars, error, classVars, runVars, callVars, sniffVars, page, ev,
                   current_context, parser_images, open_elements, ancestors>>

NextParse ==
    \/ HandleStartTag
    \/ HandleEndTag
    \/ SoupExtract

SpecParse == InitParse /\ [][NextParse]_vars

\* The URLs of a list of image dicts.
UrlSet(found) == { found[n].url : n \in 1..Len(found) }

\* C19 as stated: for the same HTML and base URL the two branches yield
\* the same set of reference URLs, one reference per URL of an <img>'s
\* srcset included.
C19_BackendsSameUrls ==
    pc = "parsed" => UrlSet(parser_images) = UrlSet(soup_images.ret)

\* An <img> of the document has a srcset, or a src that is a data: URL.
HasResponsiveOrInlineImg ==
    \E n \in 1..Len(page) :
        /\ page[n].tag = "img"
        /\ page[n].attr.srcset # "" \/ StartsWith(page[n].attr.src, "data:")

\* Where the branches do agree: on documents whose <img> tags have no
\* srcset and no data: URL as src.
BackendsSameUrlsOtherwise ==
    (pc = "parsed" /\ ~HasResponsiveOrInlineImg)
        => UrlSet(parser_images) = UrlSet(soup_images.ret)

\* C20 as stated: whatever the sequence of start and end tags, the context
\* stack holds exactly the tracked elements that are open, outermost first,
\* and the context recorded with each image describes the innermost 3 of
\* the tracked elements open where the image was met.
C20_ContextIsOpenAncestors ==
    /\ current_context = Described(open_elements)
    /\ \A n \in 1..Len(parser_images) : parser_images[n].context = ancestors[n]

\* The n-th tag is an end tag of a tracked element that is not the
\* innermost open element.
Misnested(n) ==
    /\ page[n].kind = "end"
    /\ page[n].tag \in CONTEXT_TAGS
    /\ LET open == parents_at(page, n) IN
       open # <<>> /\ open[Len(open)].tag # page[n].tag

\* Where the stack is right: as long as every end tag met closes the
\* innermost open element (or nothing is open).
ContextIsOpenAncestorsWhenNested ==
    (\A n \in 1..(ev - 1) : ~Misnested(n)) => C20_ContextIsOpenAncestors

(***************************************************************************)
(* SimpleBannerExtractor                                                   *)
(***************************************************************************)

\* A started Chrome, as webdriver.Chrome() returns it.
WebDriver == [py |-> "WebDriver"]

\* What the process finds when the extractor is constructed: whether the
\* firecrawl package was imported, the value of FIRECRAWL_API_KEY ("" also
\* stands for an unset variable: bool() is False of None and of "") and
\* whether webdriver.Chrome() starts.
Environments ==
    [ FIRECRAWL_AVAILABLE : BOOLEAN,
      FIRECRAWL_API_KEY   : {"", "fc-key"},
      chrome              : BOOLEAN ]

\* _setup_selenium: the driver, None when Chrome does not start.
setup_selenium(self, env) ==
    self @@ [driver |-> IF env.chrome THEN WebDriver ELSE None]

\* SimpleBannerExtractor(): the attributes the constructor assigns. The
\* field closed is history: close() was called on the object.
SimpleBannerExtractor(env) ==
    LET use_firecrawl == env.FIRECRAWL_AVAILABLE /\ env.FIRECRAWL_API_KEY # ""
        self == [use_firecrawl |-> use_firecrawl, closed |-> FALSE]
    IN  IF use_firecrawl
        THEN self @@ [firecrawl |-> [py |-> "FirecrawlApp"]]
        ELSE setup_selenium(self, env)

\* close(): quits the driver if the object has one.
close(self) == [self EXCEPT !.closed = TRUE]

\* The position of the first of "/", "?" and "#" in text, 0 if none.
FirstDelimiter(text) ==
    LET hits == {Find(text, d, 1) : d \in {"/", "?", "#"}} \ {0}
    IN  IF hits = {} THEN 0 ELSE CHOOSE h \in hits : \A g \in hits : h <= g

\* urlparse(url).netloc of the standard library, for a URL that has a
\* scheme: what follows "://" up to the first "/", "?" or "#". A netloc
\* with one square bracket and not the other raises ValueError.
netloc(url) ==
    LET sep  == Find(url, "://", 1)
        rest == SubSeq(url, sep + 3, Len(url))
        stop == FirstDelimiter(rest)
        loc  == IF stop = 0 THEN rest ELSE SubSeq(rest, 1, stop - 1)
    IN  IF sep = 0 THEN Ret("")
        ELSE IF Contains(loc, "[") # Contains(loc, "]")
        THEN Raised("urlparse", "ValueError")
        ELSE Ret(loc)

\* text.replace('.', '_')
RECURSIVE ReplaceDots(_)
ReplaceDots(text) ==
    IF text = "" THEN ""
    ELSE (IF SubSeq(text, 1, 1) = "." THEN "_" ELSE SubSeq(text, 1, 1))
             \o ReplaceDots(SubSeq(text, 2, Len(text)))

\* "except Exception": every exception but those that derive from
\* BaseException only.
is_exception(exc) == exc # "KeyboardInterrupt"

\* _extract_with_selenium. ans is what the site does: ans.selenium is what
\* driver.get and the wait do, ans.banners the promotional banners
\* _parse_html_for_banners finds in the page.
extract_with_selenium(self, ans) ==
    IF "driver" \notin DOMAIN self
    THEN Raised("_extract_with_selenium", "AttributeError")
    ELSE IF self.driver = None THEN Ret(<<>>)
    ELSE CASE ans.selenium = "page"        -> Ret(ans.banners)
           [] ans.selenium = "raises"      -> Ret(<<>>)
           [] ans.selenium = "interrupted" ->
                  Raised("_extract_with_selenium", "KeyboardInterrupt")

\* The try block of _extract_with_firecrawl: ans.firecrawl is what
\* scrape_url does.
firecrawl_try(self, ans) ==
    CASE ans.firecrawl = "html"         -> Ret(ans.banners)
      [] ans.firecrawl = "unsuccessful" -> extract_with_selenium(self, ans)
      [] ans.firecrawl = "raises"       -> Raised("scrape_url", "Exception")
      [] ans.firecrawl = "interrupted"  ->
             Raised("scrape_url", "KeyboardInterrupt")

\* _extract_with_firecrawl: the handler calls _extract_with_selenium.
extract_with_firecrawl(self, ans) ==
    LET tried == firecrawl_try(self, ans)
    IN  IF "exc" \in DOMAIN tried /\ is_exception(tried.exc)
        THEN extract_with_selenium(self, ans)
        ELSE tried

\* _get_extension
get_extension(content_type) ==
    IF Contains(content_type, "jpeg") \/ Contains(content_type, "jpg")
    THEN ".jpg"
    ELSE IF Contains(content_type, "png") THEN ".png"
    ELSE IF Contains(content_type, "gif") THEN ".gif"
    ELSE IF Contains(content_type, "webp") THEN ".webp"
    ELSE ".jpg"

\* _download_banners from the k-th banner on: the paths of the files that
\* were written and passed _validate_image. A banner is the image dict with
\* what its download does: get is "ok" or "error" (the request raises),
\* content_type the header, valid whether the file passes _validate_image,
\* md5 the first 8 hex digits of the MD5 of its URL.
RECURSIVE download_from(_, _, _)
download_from(banners, site_dir, k) ==
    IF k > Len(banners) THEN <<>>
    ELSE LET banner == banners[k]
             filename == "banner_" \o Format03d(k) \o "_" \o banner.md5
                             \o get_extension(banner.content_type)
             kept == banner.get = "ok"
                        /\ Contains(banner.content_type, "image")
                        /\ banner.valid
         IN  (IF kept THEN <<site_dir \o "/" \o filename>> ELSE <<>>)
                 \o download_from(banners, site_dir, k + 1)

\* _download_banners
download_banners(download_dir, banners, site_name) ==
    download_from(banners, download_dir \o "/" \o site_name, 1)

\* extract_banners: the list of downloaded files, or the exception that
\* leaves the method.
extract_banners(self, download_dir, url, ans) ==
    LET loc == netloc(url) IN
    IF "exc" \in DOMAIN loc THEN loc
    ELSE LET site_name == ReplaceDots(loc.ret)
             found == IF self.use_firecrawl
                      THEN extract_with_firecrawl(self, ans)
                      ELSE extract_with_selenium(self, ans)
         IN  IF "exc" \in DOMAIN found THEN found
             ELSE IF found.ret = <<>> THEN Ret(<<>>)
             ELSE Ret(download_banners(download_dir, found.ret, site_name))

(***************************************************************************)
(* BatchBannerExtractor                                                    *)
(***************************************************************************)

\* The default output_dir.
OUTPUT_DIR == "batch_banners"

\* Lines 61-62 of extract_from_urls: the URL with a protocol.
with_protocol(url) ==
    IF StartsWith(url, "http://") \/ StartsWith(url, "https://")
    THEN url
    ELSE "https://" \o url

Banner(url, md5hex, content_type, valid) ==
    [url |-> url, md5 |-> md5hex, get |-> "ok", content_type |-> content_type,
     valid |-> valid]

\* The sites of the runs: what each does when it is asked for its page and
\* for its banners.
\*   a.com   serves its page to both backends, two banners
\*   b.com   Firecrawl answers without success; one banner and one file
\*           that is no image
\*   c.com   Firecrawl raises and so does the driver
\*   d.com   a page without promotional banners
\*   e.com   the user interrupts the program while the page is fetched
\*   [f      no host: urlparse raises, no request is made
Web(url) ==
    CASE url = "https://a.com" ->
             [url |-> url, firecrawl |-> "html", selenium |-> "page",
              banners |-> << Banner("https://a.com/promo/welcome.png",
                                    "0a1b2c3d", "image/png", TRUE),
                             Banner("https://a.com/promo/spins.jpg",
                                    "4e5f6a7b", "image/jpeg", TRUE) >>]
      [] url = "https://b.com" ->
             [url |-> url, firecrawl |-> "unsuccessful", selenium |-> "page",
              banners |-> << Banner("https://b.com/bonus.gif",
                                    "8c9d0e1f", "image/gif", FALSE),
                             Banner("https://b.com/offer.webp",
                                    "2a3b4c5d", "image/webp", TRUE) >>]
      [] url = "http://c.com/promo" ->
             [url |-> url, firecrawl |-> "raises", selenium |-> "raises",
              banners |-> <<>>]
      [] url = "https://e.com" ->
             [url |-> url, firecrawl |-> "interrupted",
              selenium |-> "interrupted", banners |-> <<>>]
      [] OTHER ->
             [url |-> url, firecrawl |-> "html", selenium |-> "page",
              banners |-> <<>>]

\* The URLs a caller passes, with and without protocol.
Sites == {"a.com", "https://b.com", "http://c.com/promo", "d.com", "e.com",
          "[f"}

MaxSites == 2

MaxCalls == 2

UrlLists == UNION {[1..n -> Sites] : n \in 0..MaxSites}

\* The result dict of a site whose extraction returned.
site_result(url, paths) ==
    [url |-> url, site_name |-> netloc(url).ret, success |-> TRUE,
     banners_downloaded |-> Len(paths), files |-> paths]

\* The result dict of a site whose extraction raised; error is str(e),
\* kept as the name of the exception.
site_failure(url, exc) ==
    [url |-> url, success |-> FALSE, error |-> exc, banners_downloaded |-> 0]

\* Lines 76-78: the stats after a site that returned files.
count_site(st, paths) ==
    IF paths # <<>>
    THEN [st EXCEPT !.successful_sites = @ + 1,
                    !.total_banners = @ + Len(paths)]
    ELSE st

\* _save_summary: the content of batch_summary.txt. The file is opened and
\* its statistics are written in order; the success rate divides by
\* total_sites, and what follows it is written only if that line was.
save_summary(st, res) ==
    LET head == [total_sites |-> st.total_sites,
                 successful |-> st.successful_sites,
                 failed |-> st.failed_sites,
                 total_banners |-> st.total_banners]
        with_banners(r) == r.success /\ r.banners_downloaded > 0
        failure(r) == ~r.success
    IN  IF st.total_sites = 0
        THEN [file |-> head @@ [complete |-> FALSE],
              exc |-> "ZeroDivisionError"]
        ELSE [file |-> head @@
                  [complete |-> TRUE,
                   rate |-> <<st.successful_sites, st.total_sites>>,
                   successful_extractions |-> SelectSeq(res, with_banners),
                   failed_extractions |-> SelectSeq(res, failure)],
              exc |-> ""]

InitBatch ==
    /\ pc = "batch"
    /\ error = None
    /\ IdleClassify
    /\ IdleRun
    /\ IdleCall
    /\ IdleSniff
    /\ IdleParse
    /\ environ \in Environments
    /\ stats = [total_sites |-> 0, successful_sites |-> 0, failed_sites |-> 0,
                total_banners |-> 0]
    /\ before = stats
    /\ calls = 0
    /\ urls = <<>>
    /\ site = 1
    /\ results = <<>>
    /\ extractor = None
    /\ answer = None
    /\ downloaded_files = None
    /\ summary = None
    /\ batch_out = None

\* extract_from_urls up to the loop (lines 48-53), on a batch extractor no
\* call of which is under way.
ExtractFromUrlsBegin ==
    /\ pc \in {"batch", "batch_returned", "batch_raised"}
    /\ calls < MaxCalls
    /\ \E list \in UrlLists :
           /\ urls' = list
           /\ stats' = [stats EXCEPT !.total_sites = Len(list)]
    /\ before' = stats
    /\ calls' = calls + 1
    /\ results' = <<>>
    /\ site' = 1
    /\ extractor' = SimpleBannerExtractor(environ)
    /\ answer' = None
    /\ downloaded_files' = None
    /\ batch_out' = None
    /\ error' = None
    /\ pc' = "batch_loop"
    /\ UNCHANGED <<environ, summary>>
    /\ UNCHANGED <<classVars, runVars, callVars, sniffVars, parseVars>>

\* One turn of the loop (lines 56-96), and the finally clause (line 99) when
\* an exception leaves the loop.
ProcessSite ==
    /\ pc = "batch_loop"
    /\ site <= Len(urls)
    /\ LET url == with_protocol(urls[site])
           ans == Web(url)
           out == extract_banners(extractor, OUTPUT_DIR, url, ans)
       IN  /\ answer' = ans
           /\ downloaded_files' = out
           /\ IF "ret" \in DOMAIN out
              THEN /\ stats' = count_site(stats, out.ret)
                   /\ results' = Append(results, site_result(url, out.ret))
                   /\ site' = site + 1
                   /\ UNCHANGED <<pc, error, extractor>>
              ELSE IF is_exception(out.exc)
              THEN /\ stats' = [stats EXCEPT !.failed_sites = @ + 1]
                   /\ results' = Append(results, site_failure(url, out.exc))
                   /\ site' = site + 1
                   /\ UNCHANGED <<pc, error, extractor>>
              ELSE /\ extractor' = close(extractor)
                   /\ error' = out
                   /\ pc' = "batch_raised"
                   /\ UNCHANGED <<stats, results, site>>
    /\ UNCHANGED <<environ, before, calls, urls, summary, batch_out>>
    /\ UNCHANGED <<classVars, runVars, callVars, sniffVars, parseVars>>

\* The loop is over: the finally clause, _save_summary and the return
\* (lines 98-107).
LoopEnd ==
    /\ pc = "batch_loop"
    /\ site > Len(urls)
    /\ extractor' = close(extractor)
    /\ LET saved == save_summary(stats, results)
       IN  /\ summary' = saved.file
           /\ IF saved.exc # ""
              THEN /\ error' = Raised("_save_summary", saved.exc)
                   /\ pc' = "batch_raised"
                   /\ UNCHANGED batch_out
              ELSE /\ batch_out' = [results |-> results, stats |-> stats]
                   /\ pc' = "batch_returned"
                   /\ UNCHANGED error
    /\ UNCHANGED <<environ, stats, before, calls, urls, site, results, answer,
                   downloaded_files>>
    /\ UNCHANGED <<classVars, runVars, callVars, sniffVars, parseVars>>

NextBatch ==
    \/ ExtractFromUrlsBegin
    \/ ProcessSite
    \/ LoopEnd

SpecBatch == InitBatch /\ [][NextBatch]_vars

(***************************************************************************)
(* The Firecrawl fallback                                                  *)
(***************************************************************************)

\* The last extract_banners call was made on an extractor that uses
\* Firecrawl, for a URL that has a host, and the scrape failed: the result
\* was unsuccessful or scrape_url raised.
FirecrawlFailed ==
    /\ answer # None
    /\ extractor.use_firecrawl
    /\ "ret" \in DOMAIN netloc(answer.url)
    /\ answer.firecrawl \in {"unsuccessful", "raises"}

\* C21 as stated: when the extractor uses Firecrawl and the scrape fails,
\* extract_banners falls back to Selenium and returns a list, possibly
\* empty; no exception leaves extract_banners.
C21_FirecrawlFallsBack ==
    FirecrawlFailed => "ret" \in DOMAIN downloaded_files

\* What the fallback does: the constructor sets up Selenium only when
\* Firecrawl is not used, so the extractor has no driver attribute and
\* reading it raises AttributeError, in the try block and again in the
\* handler, from where it leaves extract_banners. The batch counts the site
\* as failed.
FirecrawlFailureRaises ==
    FirecrawlFailed =>
        /\ "driver" \notin DOMAIN extractor
        /\ downloaded_files = Raised("_extract_with_selenium", "AttributeError")
        /\ results # <<>>
        /\ ~results[Len(results)].success

\* An extractor that does not use Firecrawl returns a list whatever the
\* driver does, short of an interruption.
SeleniumReturnsList ==
    ( /\ answer # None
      /\ ~extractor.use_firecrawl
      /\ "ret" \in DOMAIN netloc(answer.url)
      /\ ~(extractor.driver # None /\ answer.selenium = "interrupted") )
        => "ret" \in DOMAIN downloaded_files

(***************************************************************************)
(* The statistics of a batch                                               *)
(***************************************************************************)

\* sum(r['banners_downloaded'] for r in res)
RECURSIVE SumBanners(_)
SumBanners(res) ==
    IF res = <<>> THEN 0
    ELSE Head(res).banners_downloaded + SumBanners(Tail(res))

\* The number of result dicts of res that record a failure.
Failures(res) == Cardinality({n \in 1..Len(res) : ~res[n].success})

\* The number of result dicts of res that record downloaded banners.
Successes(res) ==
    Cardinality({n \in 1..Len(res) : res[n].success
                                        /\ res[n].banners_downloaded > 0})

\* An extract_from_urls call has ended, by a return or by an exception.
CallEnded == pc \in {"batch_returned", "batch_raised"}

\* C22 as stated: after any sequence of extract_from_urls calls on one
\* batch extractor, successful_sites + failed_sites <= total_sites and
\* total_banners is the sum of banners_downloaded over the results the call
\* returned; a site whose extraction raises is counted once as failed and
\* does not stop the remaining sites; the extractor is closed and the
\* summary written on every path.
C22_BatchStats ==
    CallEnded =>
        /\ stats.successful_sites + stats.failed_sites <= stats.total_sites
        /\ stats.total_banners = SumBanners(results)
        /\ stats.failed_sites - before.failed_sites = Failures(results)
        /\ Len(results) = Len(urls)
        /\ extractor.closed
        /\ summary # None /\ summary.complete
        /\ summary.total_sites = stats.total_sites
        /\ summary.total_banners = stats.total_banners

\* What a call that returns does to the stats: total_sites is set to the
\* length of its list, the other three grow by what the call found, and
\* every site has its result dict, a site that raised an Exception too.
StatsGrowByCall ==
    pc = "batch_returned" =>
        /\ batch_out = [results |-> results, stats |-> stats]
        /\ stats.total_sites = Len(urls)
        /\ Len(results) = Len(urls)
        /\ stats.successful_sites - before.successful_sites = Successes(results)
        /\ stats.failed_sites - before.failed_sites = Failures(results)
        /\ stats.total_banners - before.total_banners = SumBanners(results)
        /\ summary.complete
        /\ summary.total_sites = stats.total_sites
        /\ summary.total_banners = stats.total_banners

\* The first call of a batch extractor, when it returns, leaves the stats
\* the claim describes.
FirstCallStats ==
    (pc = "batch_returned" /\ calls = 1) =>
        /\ stats.successful_sites + stats.failed_sites <= stats.total_sites
        /\ stats.total_banners = SumBanners(batch_out.results)

\* The extractor is closed on every path.
ExtractorClosed == CallEnded => extractor.closed

\* A call ends with an exception in two cases only: the list was empty and
\* the success rate divided by zero, the summary left unfinished; or the
\* program was interrupted during a site, the remaining sites skipped and
\* no summary written by this call.
CallRaises ==
    pc = "batch_raised" =>
        \/ /\ error = Raised("_save_summary", "ZeroDivisionError")
           /\ urls = <<>>
           /\ ~summary.complete
        \/ /\ error.exc = "KeyboardInterrupt"
           /\ Len(results) = site - 1
           /\ site <= Len(urls)

\* A site whose extraction raises an Exception is counted once as failed
\* and the loop goes on to the next site.
SiteFailureCounted ==
    [][(ProcessSite /\ "exc" \in DOMAIN downloaded_files'
                    /\ is_exception(downloaded_files'.exc))
          => /\ stats'.failed_sites = stats.failed_sites + 1
             /\ stats'.successful_sites = stats.successful_sites
             /\ Len(results') = Len(results) + 1
             /\ site' = site + 1
             /\ pc' = "batch_loop"]_vars

====
